---- MODULE Spec2Model ----
(***************************************************************************)
(* akkoproxy: a caching, format-transcoding reverse proxy for media.       *)
(*                                                                         *)
(* The model follows src/src/proxy.rs (proxy_handler and its helpers),     *)
(* src/src/image.rs (content negotiation, the converter's format choice)   *)
(* and src/src/cache.rs (the response cache).  Every request is a task     *)
(* that runs proxy_handler; the suspension points of the handler (the      *)
(* cache read, the upstream send, the body read and the cache write) cut   *)
(* it into the actions below, so that tasks interleave where the code      *)
(* lets them.                                                              *)
(*                                                                         *)
(* Representation of the data:                                             *)
(*   - a string the code only compares is a TLA+ string;                   *)
(*   - a content type is a sequence of tokens, <<"image", "/", "jpeg">>,   *)
(*     so that starts_with("image/") is computed, not assumed;             *)
(*   - a query string is the sequence of its '&'-separated parameters,     *)
(*     each [key, eq, value]: the text before the first '=', whether there *)
(*     is a '=', and the text after it as a sequence of atoms ("+" and     *)
(*     words);                                                             *)
(*   - an Accept header is the sequence of its ','-separated entries,      *)
(*     each [media, segs]: the trimmed media type and the ';'-separated    *)
(*     segments after it, a segment being a number n >= 0 (it reads        *)
(*     q=n/10), NaNQ (it reads q=NaN, which f32::from_str accepts) or NoQ  *)
(*     (anything that is not a parsable q);                                *)
(*   - bytes are [enc, len]: what the content sniffs as, and its length;   *)
(*   - a header map is a sequence of <<name, value>> pairs, names in lower *)
(*     case as http::HeaderName keeps them.                                *)
(***************************************************************************)
EXTENDS Integers, Sequences, FiniteSets, Bags, TLC

\* ------------------------------------------------------------------ bounds

\* Largest body length (upstream body or encoder output) the model draws.
MaxLen == 2

\* Number of request tasks that may be in flight at the same time.
MaxTasks == 2

\* Number of requests the model starts in one behaviour.
MaxRequests == 2

\* Longest Accept header, in entries, given to the negotiation on its own.
MaxEntries == 3

\* Longest query, in parameters, given to the query override on its own.
MaxParams == 3

\* Number of calls made on the cache on its own in one behaviour.
MaxOps == 3

\* Last instant of the cache's clock, in seconds, when it is called on its own.
MaxTicks == 3

Nil == "nil"

\* ------------------------------------------------------- image.rs: formats

OutputFormat == {"Avif", "WebP", "Jpeg", "Png", "Original"}

\* format!("{:?}", desired_format): the derived Debug rendering of a variant.
FormatDebug(f) ==
    CASE f = "Avif" -> "Avif"
      [] f = "WebP" -> "WebP"
      [] f = "Jpeg" -> "Jpeg"
      [] f = "Png" -> "Png"
      [] f = "Original" -> "Original"

CT(major, sub) == <<major, "/", sub>>

OctetStream == CT("application", "octet-stream")

\* The text/plain content type axum sets on a (StatusCode, String) response.
TextPlainUtf8 == <<"text", "/", "plain", ";", "charset=utf-8">>

is_image_content_type(content_type) ==
    /\ Len(content_type) >= 2
    /\ content_type[1] = "image"
    /\ content_type[2] = "/"

format_from_content_type(content_type) ==
    CASE content_type = CT("image", "avif") -> "Avif"
      [] content_type = CT("image", "webp") -> "WebP"
      [] content_type = CT("image", "jpeg") -> "Jpeg"
      [] content_type = CT("image", "jpg") -> "Jpeg"
      [] content_type = CT("image", "png") -> "Png"
      [] OTHER -> Nil

format_satisfies(upstream_format, desired_format) ==
    upstream_format = desired_format \/ desired_format = "Original"

\* ---------------------------------------------- image.rs: parse_accept_header

\* The quality of one entry: the first segment that parses as q=<float>,
\* 1.0 when there is none.  Qualities are in tenths.
NoQ == -1

\* "NaN".parse::<f32>() is Ok(NaN): a quality that compares with nothing.
NaNQ == -2

EntryQuality(segs) ==
    LET parsable == SelectSeq(segs, LAMBDA s : s # NoQ)
    IN  IF Len(parsable) > 0 THEN parsable[1] ELSE 10

\* A variant of MediaFormat: the enable flags are not looked at.
MediaFormat_AllEnabled(media_type, enable_avif, enable_webp) ==
    CASE media_type = "image/avif" -> "Avif"
      [] media_type = "image/webp" -> "WebP"
      [] media_type = "image/jpeg" -> "Jpeg"
      [] media_type = "image/png" -> "Png"
      [] media_type = "image/*" -> "Original"
      [] media_type = "*/*" -> "Original"
      [] OTHER -> Nil

MediaFormat(media_type, enable_avif, enable_webp) ==
    CASE media_type = "image/avif" /\ enable_avif -> "Avif"
      [] media_type = "image/webp" /\ enable_webp -> "WebP"
      [] media_type = "image/jpeg" -> "Jpeg"
      [] media_type = "image/png" -> "Png"
      [] media_type = "image/*" -> "Original"
      [] media_type = "*/*" -> "Original"
      [] OTHER -> Nil

\* formats.push((fmt, quality)) for every entry that maps to a format.
RECURSIVE AcceptCandidates(_, _, _)
AcceptCandidates(accept, enable_avif, enable_webp) ==
    IF accept = <<>> THEN <<>>
    ELSE LET e == Head(accept)
             fmt == MediaFormat(e.media, enable_avif, enable_webp)
             rest == AcceptCandidates(Tail(accept), enable_avif, enable_webp)
         IN  IF fmt = Nil THEN rest
             ELSE <<[fmt |-> fmt, q |-> EntryQuality(e.segs)]>> \o rest

\* b.1.partial_cmp(&a.1).unwrap_or(Equal) is Less: a sorts before b.  A NaN
\* compares Equal to everything.
\* A variant of IsLess: an equal quality counts as less, so that a later entry
\* moves before an earlier one of the same quality.
IsLess_OrEqual(a, b) == a.q # NaNQ /\ b.q # NaNQ /\ b.q <= a.q

IsLess(a, b) == a.q # NaNQ /\ b.q # NaNQ /\ b.q < a.q

\* slice::sort_by on a short slice is an insertion sort: each element in turn
\* moves left past the elements it is less than, and stops at the first it is
\* not less than.
RECURSIVE InsertByQuality(_, _)
InsertByQuality(x, sorted) ==
    IF sorted = <<>> THEN <<x>>
    ELSE IF IsLess(x, sorted[Len(sorted)])
         THEN InsertByQuality(x, SubSeq(sorted, 1, Len(sorted) - 1))
              \o <<sorted[Len(sorted)]>>
         ELSE sorted \o <<x>>

RECURSIVE SortByQuality(_)
SortByQuality(formats) ==
    IF formats = <<>> THEN <<>>
    ELSE InsertByQuality(formats[Len(formats)],
                         SortByQuality(SubSeq(formats, 1, Len(formats) - 1)))

parse_accept_header(accept, enable_avif, enable_webp) ==
    LET formats == SortByQuality(AcceptCandidates(accept, enable_avif, enable_webp))
    IN  IF Len(formats) > 0 THEN formats[1].fmt ELSE "Original"

\* ------------------------------------------- proxy.rs: parse_query_for_format

\* value.replace('+', " ")
ReplacePlus(value) == [i \in 1..Len(value) |-> IF value[i] = "+" THEN " " ELSE value[i]]

\* str::trim: drop the leading and the trailing spaces.
RECURSIVE TrimStart(_)
TrimStart(s) == IF s # <<>> /\ Head(s) = " " THEN TrimStart(Tail(s)) ELSE s

RECURSIVE TrimEnd(_)
TrimEnd(s) ==
    IF s # <<>> /\ s[Len(s)] = " " THEN TrimEnd(SubSeq(s, 1, Len(s) - 1)) ELSE s

Trim(s) == TrimEnd(TrimStart(s))

\* str::to_lowercase on the atoms the model draws.
LowerAtom(a) ==
    CASE a = "AVIF" -> "avif"
      [] a = "WebP" -> "webp"
      [] OTHER -> a

ToLowercase(s) == [i \in 1..Len(s) |-> LowerAtom(s[i])]

FormatOfValue(value) ==
    LET normalized == ToLowercase(Trim(ReplacePlus(value)))
    IN  CASE normalized = <<"avif">> -> "Avif"
          [] normalized = <<"webp">> -> "WebP"
          [] OTHER -> Nil

IsFormatParam(param) == param.eq /\ param.key = "format"

\* A variant of FormatValue: a `format` parameter that names no format leaves
\* the value an earlier one gave.
RECURSIVE FormatValue_KeepsValid(_, _)
FormatValue_KeepsValid(params, format_value) ==
    IF params = <<>> THEN format_value
    ELSE FormatValue_KeepsValid(Tail(params),
             IF IsFormatParam(Head(params)) /\ FormatOfValue(Head(params).value) # Nil
             THEN FormatOfValue(Head(params).value)
             ELSE format_value)

\* The loop of parse_query_for_format: format_value is overwritten by every
\* `format` parameter, in order.
RECURSIVE FormatValue(_, _)
FormatValue(params, format_value) ==
    IF params = <<>> THEN format_value
    ELSE FormatValue(Tail(params),
                     IF IsFormatParam(Head(params))
                     THEN FormatOfValue(Head(params).value)
                     ELSE format_value)

EmptyParam == [key |-> "", eq |-> FALSE, value |-> <<>>]

\* remaining_params.join("&") as a query: a lone empty parameter joins to "".
JoinAmp(params) == IF params = <<EmptyParam>> THEN <<>> ELSE params

\* A variant of parse_query_for_format: a `format` parameter that names no
\* format is forwarded like any other.
parse_query_for_format_KeepsUnknown(query) ==
    [format |-> FormatValue(query, Nil),
     remaining |-> JoinAmp(SelectSeq(query,
                       LAMBDA p : ~(IsFormatParam(p) /\ FormatOfValue(p.value) # Nil)))]

parse_query_for_format(query) ==
    [format |-> FormatValue(query, Nil),
     remaining |-> JoinAmp(SelectSeq(query, LAMBDA p : ~IsFormatParam(p)))]

\* --------------------------------------------- proxy.rs: should_convert_image

\* A variant of should_convert_image: the size limit is not looked at.
should_convert_image_NoSizeCheck(content_type, upstream_format, desired_format, content_size, max_size) ==
    IF ~is_image_content_type(content_type) THEN FALSE
    ELSE IF desired_format = "Original" THEN FALSE
    ELSE ~(upstream_format # Nil /\ format_satisfies(upstream_format, desired_format))

should_convert_image(content_type, upstream_format, desired_format, content_size, max_size) ==
    IF ~is_image_content_type(content_type) THEN FALSE
    ELSE IF desired_format = "Original" THEN FALSE
    ELSE IF content_size > max_size THEN FALSE
    ELSE ~(upstream_format # Nil /\ format_satisfies(upstream_format, desired_format))

\* ------------------------------------------------- proxy.rs: response assembly

EXCLUDED_HEADERS ==
    {"content-length", "content-type", "transfer-encoding", "connection", "via",
     "cache-control"}

X_CACHE_STATUS == "x-cache-status"

\* A variant of should_exclude_header: only the constant list is looked at.
should_exclude_header_ListOnly(key) == key \in EXCLUDED_HEADERS

should_exclude_header(key) == key \in EXCLUDED_HEADERS \/ key = X_CACHE_STATUS

HasHeader(headers, name) == \E i \in 1..Len(headers) : headers[i][1] = name

\* The values a header map holds under a name, in order (HeaderMap::get_all).
GetAll(headers, name) ==
    LET hits == SelectSeq(headers, LAMBDA h : h[1] = name)
    IN  [i \in 1..Len(hits) |-> hits[i][2]]

\* Option<HeaderMap>
NoHeaders == [some |-> FALSE, map |-> <<>>]

SomeHeaders(map) == [some |-> TRUE, map |-> map]

\* The loop both builders share: copy every upstream header not excluded.
CopiedHeaders(upstream_headers) ==
    IF ~upstream_headers.some THEN <<>>
    ELSE SelectSeq(upstream_headers.map, LAMBDA h : ~should_exclude_header(h[1]))

upstream_has_cors(upstream_headers) ==
    IF ~upstream_headers.some THEN FALSE
    ELSE HasHeader(upstream_headers.map, "access-control-allow-origin")

\* A variant of build_response: Vary: Accept is left out of a cache hit.
build_response_VaryOnMiss(data, content_type, via_header, upstream_headers, is_cache_hit, behind_cloudflare_free) ==
    [status |-> 200,
     headers |->
         CopiedHeaders(upstream_headers)
         \o << <<"content-type", content_type>>,
               <<"via", via_header>>,
               <<"cache-control", "public, max-age=31536000, immutable">>,
               <<X_CACHE_STATUS, IF is_cache_hit THEN "HIT" ELSE "MISS">> >>
         \o (IF behind_cloudflare_free /\ ~is_cache_hit
             THEN << <<"vary", "Accept">> >> ELSE <<>>)
         \o (IF ~upstream_has_cors(upstream_headers)
             THEN << <<"access-control-allow-origin", "*">> >> ELSE <<>>),
     body |-> data]

build_response(data, content_type, via_header, upstream_headers, is_cache_hit, behind_cloudflare_free) ==
    [status |-> 200,
     headers |->
         CopiedHeaders(upstream_headers)
         \o << <<"content-type", content_type>>,
               <<"via", via_header>>,
               <<"cache-control", "public, max-age=31536000, immutable">>,
               <<X_CACHE_STATUS, IF is_cache_hit THEN "HIT" ELSE "MISS">> >>
         \o (IF behind_cloudflare_free THEN << <<"vary", "Accept">> >> ELSE <<>>)
         \o (IF ~upstream_has_cors(upstream_headers)
             THEN << <<"access-control-allow-origin", "*">> >> ELSE <<>>),
     body |-> data]

\* A variant of build_response_with_status: the answer is built with 200.
build_response_with_status_Ok(data, status, via_header, upstream_headers) ==
    [status |-> 200,
     headers |->
         CopiedHeaders(upstream_headers)
         \o << <<"via", via_header>> >>
         \o (IF ~upstream_has_cors(upstream_headers)
             THEN << <<"access-control-allow-origin", "*">> >> ELSE <<>>),
     body |-> data]

build_response_with_status(data, status, via_header, upstream_headers) ==
    [status |-> status,
     headers |->
         CopiedHeaders(upstream_headers)
         \o << <<"via", via_header>> >>
         \o (IF ~upstream_has_cors(upstream_headers)
             THEN << <<"access-control-allow-origin", "*">> >> ELSE <<>>),
     body |-> data]

EmptyBody == [enc |-> "empty", len |-> 0]

\* The root redirect of proxy_handler.
RootRedirect ==
    [status |-> 301,
     headers |-> << <<"location", "https://github.com/BlockG-ws/akkoproxy">> >>,
     body |-> EmptyBody]

\* ProxyError::into_response: (status, message).into_response().
ProxyErrorResponse(error) ==
    [status |-> IF error = "PathNotAllowed" THEN 403 ELSE 502,
     headers |-> << <<"content-type", TextPlainUtf8>> >>,
     body |-> [text |-> IF error = "PathNotAllowed" THEN "Path not allowed"
                        ELSE "Upstream error: cause"]]

\* StatusCode::is_success
is_success(status) == status >= 200 /\ status < 300

\* ---------------------------------------------------- image.rs: the converter

ImageEncodings == {"jpeg", "png", "webp", "avif"}

\* image::load_from_memory sniffs the content, whatever type was declared.
Decodable(data) == data.enc \in ImageEncodings /\ data.len > 0

\* A variant of EncodedAs: the enable flags are not looked at.
EncodedAs_AsRequested(target_format, enable_avif, enable_webp) ==
    CASE target_format = "Avif" -> "avif"
      [] target_format = "WebP" -> "webp"
      [] target_format = "Jpeg" -> "jpeg"
      [] target_format = "Png" -> "png"
      [] OTHER -> "jpeg"

\* The match of ImageConverter::convert: what the target is encoded as.
EncodedAs(target_format, enable_avif, enable_webp) ==
    CASE target_format = "Avif" /\ enable_avif -> "avif"
      [] target_format = "WebP" /\ enable_webp -> "webp"
      [] target_format = "Jpeg" -> "jpeg"
      [] target_format = "Png" -> "png"
      [] OTHER -> "jpeg"

\* What an encoder is made with.  to_avif: AvifEncoder::new_with_speed_quality
\* with speed 10, the fastest, and the configured quality.
to_avif(quality) == [codec |-> "avif", quality |-> quality, speed |-> 10, lossless |-> FALSE]

\* to_webp: WebPEncoder::new_lossless, which takes no quality.
to_webp(quality) == [codec |-> "webp", quality |-> 0, speed |-> 0, lossless |-> TRUE]

\* to_jpeg: img.write_to(cursor, ImageFormat::Jpeg) is given no quality, and
\* encodes with the quality the library's JPEG encoder starts with, 75.
to_jpeg(quality) == [codec |-> "jpeg", quality |-> 75, speed |-> 0, lossless |-> FALSE]

\* to_png: img.write_to(cursor, ImageFormat::Png).
to_png(quality) == [codec |-> "png", quality |-> 0, speed |-> 0, lossless |-> TRUE]

NoEncoder == [codec |-> "none", quality |-> 0, speed |-> 0, lossless |-> FALSE]

\* The encoder the match of ImageConverter::convert calls.
EncoderOf(target_format, quality, enable_avif, enable_webp) ==
    CASE target_format = "Avif" /\ enable_avif -> to_avif(quality)
      [] target_format = "WebP" /\ enable_webp -> to_webp(quality)
      [] target_format = "Jpeg" -> to_jpeg(quality)
      [] target_format = "Png" -> to_png(quality)
      [] target_format = "Original" -> NoEncoder
      [] OTHER -> to_jpeg(quality)

\* The results ImageConverter::convert can give: Err when the bytes do not
\* decode or the encoder rejects the pixels, else the encoded bytes (of a
\* length the encoder decides) with the mime type of what was encoded.
ConvertResults(data, target_format, enable_avif, enable_webp) ==
    IF target_format = "Original"
    THEN IF Decodable(data)
         THEN {[ok |-> TRUE, data |-> data, mime_type |-> OctetStream]}
         ELSE {[ok |-> FALSE]}
    ELSE IF ~Decodable(data) THEN {[ok |-> FALSE]}
    ELSE {[ok |-> FALSE]} \cup
         {[ok |-> TRUE,
           data |-> [enc |-> EncodedAs(target_format, enable_avif, enable_webp),
                     len |-> n],
           mime_type |-> CT("image", EncodedAs(target_format, enable_avif, enable_webp))]
          : n \in 1..MaxLen}

\* ------------------------------------------------------------------ inputs

\* A path is the sequence of its pieces, the first being the longest of "/",
\* "/media", "/proxy" the path starts with, or the whole path.
StartsWith(path, prefix) == path[1] = prefix

Param(key, value) == [key |-> key, eq |-> TRUE, value |-> value]

Entry(media, segs) == [media |-> media, segs |-> segs]

\* The Accept header of a request: absent, or a list of entries.
NoAccept == [some |-> FALSE, entries |-> <<>>]

Accept(entries) == [some |-> TRUE, entries |-> entries]

Request(path, query, accept) == [path |-> path, query |-> query, accept |-> accept]

\* The requests the clients send.
Requests ==
    {Request(<<"/">>, <<>>, NoAccept),
     Request(<<"/other">>, <<>>, Accept(<<Entry("image/avif", <<>>)>>)),
     Request(<<"/media", "/a">>, <<>>, NoAccept),
     Request(<<"/media", "/a">>, <<>>, Accept(<<Entry("image/avif", <<>>)>>)),
     Request(<<"/media", "/a">>, <<Param("format", <<"webp">>)>>,
             Accept(<<Entry("image/jpeg", <<>>)>>)),
     Request(<<"/proxy", "/b">>, <<Param("format", <<"avif">>)>>,
             Accept(<<Entry("image/png", <<>>)>>))}

SeqsUpTo(S, n) == UNION {[1..k -> S] : k \in 1..n}

\* The Accept headers given to the negotiation on its own: absent (or not
\* text), or up to MaxEntries entries; "" is what an empty header splits to.
AcceptEntries ==
    {Entry(media, segs) :
        media \in {"image/avif", "image/webp", "image/jpeg", "*/*", ""},
        segs \in {<<>>, <<5>>, <<NaNQ>>}}
    \cup {Entry("image/png", <<NoQ, 9>>)}

AcceptHeaders == {NoAccept} \cup {Accept(e) : e \in SeqsUpTo(AcceptEntries, MaxEntries)}

\* The queries given to the query override on its own: up to MaxParams
\* parameters, among them `format` with values that normalize to avif or webp
\* and values that do not, and parameters without '='.
QueryParams ==
    {Param("format", <<"avif">>),
     Param("format", <<"AVIF">>),
     Param("format", <<"+", "webp", "+">>),
     Param("format", <<"webp", "+", "ignored">>),
     Param("format", <<"png">>),
     Param("x", <<"1">>),
     [key |-> "debug", eq |-> FALSE, value |-> <<>>],
     [key |-> "format", eq |-> FALSE, value |-> <<>>]}

Queries == SeqsUpTo(QueryParams, MaxParams)

OverrideAccepts ==
    {NoAccept,
     Accept(<<Entry("image/avif", <<>>)>>),
     Accept(<<Entry("image/jpeg", <<5>>)>>)}

\* The requests whose cache keys are compared: two paths, the queries of at
\* most one parameter, three Accept headers.
KeyRequests ==
    {Request(path, query, accept) :
        path \in {<<"/media", "/a">>, <<"/media", "/b">>},
        query \in {<<>>} \cup {<<p>> : p \in QueryParams},
        accept \in OverrideAccepts}

\* What the upstream may answer: a status, a header map, then a body.
Statuses == {200, 206, 302, 404}

HeaderMaps ==
    {<<>>,
     << <<"content-type", CT("image", "jpeg")>>,
        <<"content-length", "n">>,
        <<"location", "/moved">>,
        <<"vary", "Origin">> >>,
     << <<"content-type", CT("image", "png")>>,
        <<"access-control-allow-origin", "https://up.example">>,
        <<"via", "upstream-proxy">>,
        <<"cache-control", "no-cache">>,
        <<"x-cache-status", "upstream-hit">>,
        <<"connection", "close">>,
        <<"x-custom-header", "custom-value">> >>}

Bodies == [enc : {"junk", "jpeg"}, len : 1..MaxLen]

\* The configurations: the flags of ServerConfig and ImageConfig, and a
\* max_item_size of one byte, so that bodies on both sides of it are drawn.
Configs ==
    [preserve_upstream_headers : BOOLEAN,
     behind_cloudflare_free : BOOLEAN,
     enable_avif : BOOLEAN,
     enable_webp : BOOLEAN,
     max_item_size : {1},
     ttl : {2},
     quality : {85},
     via_header : {"akkoproxy/1.0"},
     upstream_url : {"https://upstream.example"}]

\* ------------------------------------------------------------------- state

VARIABLES
    cfg,      \* AppState.config: fixed when the state is built
    cache,    \* AppState.cache: CacheKey -> CachedResponse, the live entries
    task,     \* the bag of the requests in flight: where each is in
              \* proxy_handler, and its locals
    started,  \* how many requests have been started
    last,     \* the request that completed last: what it did and answered
    served,   \* for each live entry, the response of the request that stored
              \* it, with its body and content type
    touched,  \* the keys whose entry the request that completed last changed
    trace,    \* the calls made so far, when operations are called on their own
    ret,      \* what the last of those calls returned
    now,      \* the cache's clock, in seconds, when it is called on its own
    written   \* for each entry, the instant it was inserted or replaced

vars == <<cfg, cache, task, started, last, served, touched, trace, ret, now, written>>

\* CacheKey::new(format!("{}{}", path, "?" + query when not empty), tag)
KeyPath(path, query) == IF query = <<>> THEN <<path>> ELSE <<path, "?", query>>

CacheKey(path, format) == [path |-> path, format |-> format]

NoKey == CacheKey(<<>>, "")

\* A variant of UpstreamUrl: the '?' is written whatever the query.
UpstreamUrl_AlwaysQuery(base, path, upstream_query) == <<base, path, "?", upstream_query>>

\* Lines 122-127: the URL of the upstream GET.
UpstreamUrl(base, path, upstream_query) ==
    IF upstream_query = <<>> THEN <<base, path>>
    ELSE <<base, path, "?", upstream_query>>

CachedResponse(data, content_type, upstream_headers) ==
    [data |-> data, content_type |-> content_type, upstream_headers |-> upstream_headers]

NoResponse == [status |-> 0, headers |-> <<>>, body |-> EmptyBody]

NotSeen ==
    [some |-> FALSE, body |-> EmptyBody, content_type |-> OctetStream, resp |-> NoResponse]

\* lookup_live records whether the key was live when the task looked it up.
NewTask ==
    [pc |-> "fetch", key |-> NoKey, desired |-> "Original", url |-> <<>>,
     log |-> <<>>, lookup_live |-> FALSE]

\* No call has returned.
NoRet == [some |-> FALSE]

NoResult ==
    [outcome |-> "none", path |-> <<>>, key |-> NoKey, desired |-> "Original",
     status |-> 0, up_map |-> <<>>, content_type |-> OctetStream,
     body |-> EmptyBody, failure |-> "none", needs_conversion |-> FALSE,
     conv |-> "none", stored |-> FALSE, resp |-> NoResponse, log |-> <<>>,
     seen |-> NotSeen]

Init ==
    /\ cfg \in Configs
    /\ cache = <<>>
    /\ task = EmptyBag
    /\ started = 0
    /\ last = NoResult
    /\ served = <<>>
    /\ touched = {}
    /\ trace = <<>>
    /\ ret = NoRet
    /\ now = 0
    /\ written = <<>>

\* ------------------------------------------------------ cache.rs: the cache

\* ResponseCache::get: the entry, when the key is live.
CacheGet(c, key) ==
    IF key \in DOMAIN c THEN [some |-> TRUE, value |-> c[key]]
    ELSE [some |-> FALSE, value |-> CachedResponse(EmptyBody, OctetStream, NoHeaders)]

\* A variant of CachePut: the entry of a key that has one is kept.
CachePut_KeepsExisting(c, key, response) ==
    [k \in (DOMAIN c) \cup {key} |-> IF k \in DOMAIN c THEN c[k] ELSE response]

\* A variant of CachePut: the entry of a key that has one is updated field by
\* field, and the upstream headers of the old entry are still there.
CachePut_FieldByField(c, key, response) ==
    [k \in (DOMAIN c) \cup {key} |->
        IF k # key THEN c[k]
        ELSE IF k \in DOMAIN c
        THEN [response EXCEPT !.upstream_headers = c[k].upstream_headers]
        ELSE response]

\* ResponseCache::put: insert, or replace the entry of the key.
CachePut(c, key, response) ==
    [k \in (DOMAIN c) \cup {key} |-> IF k = key THEN response ELSE c[k]]

Without(c, key) == [k \in (DOMAIN c) \ {key} |-> c[k]]

\* A usize or u64 value: hi * 2^32 + lo, with lo < 2^32.
USize(hi, lo) == [hi |-> hi, lo |-> lo]

\* `as u32` on a usize: the low 32 bits.
AsU32(n) == n.lo

\* The weigher given to the builder: max(1, value.data.len() as u32).
Weigher(data_len) == IF AsU32(data_len) > 1 THEN AsU32(data_len) ELSE 1

\* The sum of the weights of the entries under the keys.
RECURSIVE SumWeights(_, _)
SumWeights(c, keys) ==
    IF keys = {} THEN 0
    ELSE LET k == CHOOSE k \in keys : TRUE
         IN  Weigher(USize(0, c[k].data.len)) + SumWeights(c, keys \ {k})

\* ResponseCache::stats: the cache's entry_count() and weighted_size().
CacheStats(c) ==
    [entry_count |-> Cardinality(DOMAIN c), weighted_size |-> SumWeights(c, DOMAIN c)]

\* A variant of metrics_handler: the two numbers change places.
metrics_handler_Swapped(stats) ==
    [status |-> 200,
     headers |-> << <<"content-type", <<"text", "/", "plain", ";", "version=0.0.4">> >> >>,
     body |-> << <<"# Cache Statistics">>,
                 <<"cache_entries", stats.weighted_size>>,
                 <<"cache_size_bytes", stats.entry_count>> >>]

\* metrics_handler: the body is the sequence of its lines, each the sequence
\* of its space-separated words.
metrics_handler(stats) ==
    [status |-> 200,
     headers |-> << <<"content-type", <<"text", "/", "plain", ";", "version=0.0.4">> >> >>,
     body |-> << <<"# Cache Statistics">>,
                 <<"cache_entries", stats.entry_count>>,
                 <<"cache_size_bytes", stats.weighted_size>> >>]

\* ---------------------------------------- proxy.rs: proxy_handler, by pieces

\* A variant of PathCheck: no root redirect, the root fails the prefix check.
PathCheck_RootForbidden(path) ==
    IF ~StartsWith(path, "/media") /\ ~StartsWith(path, "/proxy") THEN "forbidden"
    ELSE "allowed"

\* Lines 100-113: the root redirect, then the prefix check.
PathCheck(path) ==
    IF path = <<"/">> THEN "redirect"
    ELSE IF ~StartsWith(path, "/media") /\ ~StartsWith(path, "/proxy") THEN "forbidden"
    ELSE "allowed"

\* Lines 115-120: the query override, when behind_cloudflare_free.
QueryOverride(c, query) ==
    IF c.behind_cloudflare_free /\ query # <<>>
    THEN parse_query_for_format(query)
    ELSE [format |-> Nil, remaining |-> query]

\* A variant of DesiredFormat: a format of the query that is disabled is not
\* taken.
DesiredFormat_EnabledOnly(c, format_from_query, accept) ==
    IF \/ format_from_query = "Avif" /\ c.enable_avif
       \/ format_from_query = "WebP" /\ c.enable_webp
    THEN format_from_query
    ELSE parse_accept_header(
             IF accept.some THEN accept.entries ELSE <<Entry("*/*", <<>>)>>,
             c.enable_avif, c.enable_webp)

\* Lines 129-145: the format of the query, else of the Accept header ("*/*"
\* when the request has none).
DesiredFormat(c, format_from_query, accept) ==
    IF format_from_query # Nil THEN format_from_query
    ELSE parse_accept_header(
             IF accept.some THEN accept.entries ELSE <<Entry("*/*", <<>>)>>,
             c.enable_avif, c.enable_webp)

\* A variant of Resolve: the key is built from the query that goes upstream.
Resolve_StrippedKey(c, request) ==
    LET parsed == QueryOverride(c, request.query)
        desired_format == DesiredFormat(c, parsed.format, request.accept)
    IN  [desired_format |-> desired_format,
         upstream_url |-> UpstreamUrl(c.upstream_url, request.path, parsed.remaining),
         cache_key |-> CacheKey(KeyPath(request.path, parsed.remaining),
                                FormatDebug(desired_format))]

\* Lines 115-151: what the handler works out of the request before it looks
\* the cache up.
Resolve(c, request) ==
    LET parsed == QueryOverride(c, request.query)
        desired_format == DesiredFormat(c, parsed.format, request.accept)
    IN  [desired_format |-> desired_format,
         upstream_url |-> UpstreamUrl(c.upstream_url, request.path, parsed.remaining),
         cache_key |-> CacheKey(KeyPath(request.path, request.query),
                                FormatDebug(desired_format))]

\* Lines 153-164: the response to a cache hit.
HitResponse(c, cached) ==
    build_response(cached.data, cached.content_type, c.via_header,
                   cached.upstream_headers, TRUE, c.behind_cloudflare_free)

\* Lines 186-190 and 207-211: the upstream headers are kept when configured.
PreservedHeaders(c, up_map) ==
    IF c.preserve_upstream_headers THEN SomeHeaders(up_map) ELSE NoHeaders

\* Lines 213-218: the declared content type, with its default.
DeclaredContentType(up_map) ==
    LET values == GetAll(up_map, "content-type")
    IN  IF Len(values) > 0 THEN values[1] ELSE OctetStream

\* A variant of FinalPayloads: a failed conversion leaves an empty payload.
FinalPayloads_ErrorEmpty(c, needs_conversion, body_bytes, content_type, desired_format) ==
    IF needs_conversion
    THEN {IF r.ok
          THEN [data |-> r.data, content_type |-> r.mime_type, conv |-> "ok"]
          ELSE [data |-> EmptyBody, content_type |-> OctetStream, conv |-> "err"]
          : r \in ConvertResults(body_bytes, desired_format, c.enable_avif, c.enable_webp)}
    ELSE {[data |-> body_bytes, content_type |-> content_type, conv |-> "none"]}

\* Lines 236-258: the final payload and content type; a failed conversion
\* falls back to the upstream bytes.
FinalPayloads(c, needs_conversion, body_bytes, content_type, desired_format) ==
    IF needs_conversion
    THEN {IF r.ok
          THEN [data |-> r.data, content_type |-> r.mime_type, conv |-> "ok"]
          ELSE [data |-> body_bytes, content_type |-> content_type, conv |-> "err"]
          : r \in ConvertResults(body_bytes, desired_format, c.enable_avif, c.enable_webp)}
    ELSE {[data |-> body_bytes, content_type |-> content_type, conv |-> "none"]}

\* A variant of Cacheable: every payload is stored.
Cacheable_Always(c, final_data) == TRUE

\* Line 261: only a payload within max_item_size is stored.
Cacheable(c, final_data) == final_data.len <= c.max_item_size

\* A variant of StoredEntry: the entry keeps the default content type, not
\* the final one.
StoredEntry_DefaultType(final_data, final_content_type, upstream_headers) ==
    CachedResponse(final_data, OctetStream, upstream_headers)

\* A variant of StoredEntry: the entry is stored without the upstream headers.
StoredEntry_WithoutHeaders(final_data, final_content_type, upstream_headers) ==
    CachedResponse(final_data, final_content_type, NoHeaders)

\* Lines 262-266: the entry that is stored.
StoredEntry(final_data, final_content_type, upstream_headers) ==
    CachedResponse(final_data, final_content_type, upstream_headers)

\* ----------------------------------------------------------------- actions

\* `last` is what the client of the request that just completed observes; the
\* response leaves the handler (Respond) before anything else is looked at.
Quiet == last.outcome = "none"

\* The keys whose entry differs between two states of the cache.
Changed(c, d) ==
    {k \in (DOMAIN c) \cup (DOMAIN d) :
        \/ k \notin DOMAIN c
        \/ k \notin DOMAIN d
        \/ c[k] # d[k]}

\* Kept with `last`: what the completing step did to the cache.
Touch == touched' = IF last'.outcome = "none" THEN {} ELSE Changed(cache, cache')

\* A variant of Missed: a request that misses while another request for the
\* same key is in flight waits for that request instead of fetching.
Missed_Coalesced(tasks, tk) ==
    IF \E other \in BagToSet(tasks) : other.key = tk.key
    THEN tasks (+) SetToBag({[tk EXCEPT !.pc = "wait"]})
    ELSE tasks (+) SetToBag({tk})

\* Lines 154-169: nothing stands between the lookup that misses and the
\* request's own upstream fetch; the handler keeps no record of the fetches in
\* flight.
Missed(tasks, tk) == tasks (+) SetToBag({tk})

\* A request arrives and runs proxy_handler up to the cache read (lines
\* 95-164): the path check, the negotiation, the key, the lookup.  It ends
\* there with the redirect, the 403 or the hit, or goes on to the upstream.
Arrive ==
    /\ Quiet
    /\ BagCardinality(task) < MaxTasks
    /\ started < MaxRequests
    /\ started' = started + 1
    /\ \E request \in Requests :
        LET path == request.path
            resolved == Resolve(cfg, request)
            upstream_url == resolved.upstream_url
            desired_format == resolved.desired_format
            cache_key == resolved.cache_key
            cached == CacheGet(cache, cache_key)
            check == PathCheck(path)
        IN  IF check = "redirect"
            THEN /\ last' = [NoResult EXCEPT !.outcome = "redirect", !.path = path,
                                             !.resp = RootRedirect]
                 /\ UNCHANGED task
            ELSE IF check = "forbidden"
            THEN /\ last' = [NoResult EXCEPT !.outcome = "forbidden", !.path = path,
                                 !.resp = ProxyErrorResponse("PathNotAllowed")]
                 /\ UNCHANGED task
            ELSE IF cached.some
            THEN /\ last' = [NoResult EXCEPT !.outcome = "hit", !.path = path,
                                 !.key = cache_key, !.desired = desired_format,
                                 !.resp = HitResponse(cfg, cached.value),
                                 !.log = <<"lookup">>,
                                 !.seen = [some |-> TRUE,
                                           body |-> served[cache_key].body,
                                           content_type |-> served[cache_key].content_type,
                                           resp |-> served[cache_key].resp]]
                 /\ UNCHANGED task
            ELSE /\ task' = Missed(task,
                                 [NewTask EXCEPT !.key = cache_key,
                                                 !.desired = desired_format,
                                                 !.url = upstream_url,
                                                 !.log = <<"lookup">>,
                                                 !.lookup_live =
                                                     cache_key \in DOMAIN served])
                 /\ UNCHANGED last
    /\ UNCHANGED <<cfg, cache, served>>
    /\ UNCHANGED <<trace, ret, now, written>>
    /\ Touch

\* The result of a request that ends at the upstream: what `last` records.
Completed(tsk, outcome) ==
    [NoResult EXCEPT !.outcome = outcome, !.path = tsk.key.path[1], !.key = tsk.key,
                     !.desired = tsk.desired, !.log = tsk.log]

\* A variant of SendFails: the fetch is tried again.
SendFails_Retry(tk) ==
    /\ Quiet
    /\ BagIn(tk, task)
    /\ tk.pc = "fetch"
    /\ task' = (task (-) SetToBag({tk}))
                (+) SetToBag({[tk EXCEPT !.log = @ \o <<"fetch">>]})
    /\ UNCHANGED <<cfg, cache, started, last, served>>
    /\ UNCHANGED <<trace, ret, now, written>>
    /\ Touch

\* client.get(url).send() fails (lines 169-176): connect error or timeout.
SendFails(tk) ==
    /\ Quiet
    /\ BagIn(tk, task)
    /\ tk.pc = "fetch"
    /\ last' = [Completed([tk EXCEPT !.log = @ \o <<"fetch">>], "bad_gateway")
                   EXCEPT !.failure = "send",
                          !.resp = ProxyErrorResponse("UpstreamError")]
    /\ task' = task (-) SetToBag({tk})
    /\ UNCHANGED <<cfg, cache, started, served>>
    /\ UNCHANGED <<trace, ret, now, written>>
    /\ Touch

\* client.get(url).send() answers (lines 169-176): the handler now awaits the
\* body.  Nothing the handler shares depends on the answer until the body is
\* read, so the model draws the answer's status and headers with its body.
SendAnswers(tk) ==
    /\ Quiet
    /\ BagIn(tk, task)
    /\ tk.pc = "fetch"
    /\ task' = (task (-) SetToBag({tk}))
                (+) SetToBag({[tk EXCEPT !.pc = "body", !.log = @ \o <<"fetch">>]})
    /\ UNCHANGED <<cfg, cache, started, last, served>>
    /\ UNCHANGED <<trace, ret, now, written>>
    /\ Touch

\* A variant of ReadFails: a body that cannot be read is taken as empty and
\* the answer is forwarded with the upstream's status.
ReadFails_EmptyBody(tk) ==
    /\ Quiet
    /\ BagIn(tk, task)
    /\ tk.pc = "body"
    /\ \E status \in Statuses, up_map \in HeaderMaps :
        last' = [Completed(tk, "passthrough")
                    EXCEPT !.failure = "read", !.status = status, !.up_map = up_map,
                           !.content_type = DeclaredContentType(up_map),
                           !.resp = build_response_with_status(
                                        EmptyBody, status, cfg.via_header,
                                        PreservedHeaders(cfg, up_map))]
    /\ task' = task (-) SetToBag({tk})
    /\ UNCHANGED <<cfg, cache, started, served>>
    /\ UNCHANGED <<trace, ret, now, written>>
    /\ Touch

\* A variant of ReadFails: the failure also drops the entry of the key.
ReadFails_Invalidates(tk) ==
    /\ Quiet
    /\ BagIn(tk, task)
    /\ tk.pc = "body"
    /\ \E status \in Statuses, up_map \in HeaderMaps :
        last' = [Completed(tk, "bad_gateway")
                    EXCEPT !.failure = "read", !.status = status, !.up_map = up_map,
                           !.content_type = DeclaredContentType(up_map),
                           !.resp = ProxyErrorResponse("UpstreamError")]
    /\ task' = task (-) SetToBag({tk})
    /\ cache' = Without(cache, tk.key)
    /\ served' = Without(served, tk.key)
    /\ UNCHANGED <<cfg, started>>
    /\ UNCHANGED <<trace, ret, now, written>>
    /\ Touch

\* response.bytes() fails (lines 192-195 and 220-223), whatever the status.
ReadFails(tk) ==
    /\ Quiet
    /\ BagIn(tk, task)
    /\ tk.pc = "body"
    /\ \E status \in Statuses, up_map \in HeaderMaps :
        last' = [Completed(tk, "bad_gateway")
                    EXCEPT !.failure = "read", !.status = status, !.up_map = up_map,
                           !.content_type = DeclaredContentType(up_map),
                           !.resp = ProxyErrorResponse("UpstreamError")]
    /\ task' = task (-) SetToBag({tk})
    /\ UNCHANGED <<cfg, cache, started, served>>
    /\ UNCHANGED <<trace, ret, now, written>>
    /\ Touch

\* A variant of PassThrough: the forwarded answer is stored as well.
PassThrough_Stores(tk) ==
    /\ Quiet
    /\ BagIn(tk, task)
    /\ tk.pc = "body"
    /\ \E status \in Statuses, up_map \in HeaderMaps, body_bytes \in Bodies :
        /\ ~is_success(status)
        /\ cache' = CachePut(cache, tk.key,
                        StoredEntry(body_bytes, DeclaredContentType(up_map),
                                    PreservedHeaders(cfg, up_map)))
        /\ served' = CachePut(served, tk.key,
                         [body |-> body_bytes,
                          content_type |-> DeclaredContentType(up_map),
                          resp |-> build_response_with_status(
                                       body_bytes, status, cfg.via_header,
                                       PreservedHeaders(cfg, up_map))])
        /\ last' = [Completed(tk, "passthrough")
                       EXCEPT !.status = status, !.up_map = up_map,
                              !.content_type = DeclaredContentType(up_map),
                              !.body = body_bytes,
                              !.resp = build_response_with_status(
                                           body_bytes, status, cfg.via_header,
                                           PreservedHeaders(cfg, up_map))]
    /\ task' = task (-) SetToBag({tk})
    /\ UNCHANGED <<cfg, started>>
    /\ UNCHANGED <<trace, ret, now, written>>
    /\ Touch

\* The body of a non-2xx answer is read and forwarded (lines 178-204).
PassThrough(tk) ==
    /\ Quiet
    /\ BagIn(tk, task)
    /\ tk.pc = "body"
    /\ \E status \in Statuses, up_map \in HeaderMaps, body_bytes \in Bodies :
        /\ ~is_success(status)
        /\ last' = [Completed(tk, "passthrough")
                       EXCEPT !.status = status, !.up_map = up_map,
                              !.content_type = DeclaredContentType(up_map),
                              !.body = body_bytes,
                              !.resp = build_response_with_status(
                                           body_bytes, status, cfg.via_header,
                                           PreservedHeaders(cfg, up_map))]
    /\ task' = task (-) SetToBag({tk})
    /\ UNCHANGED <<cfg, cache, started, served>>
    /\ UNCHANGED <<trace, ret, now, written>>
    /\ Touch

\* The body of a 2xx answer is read; the handler decides on the conversion,
\* converts, stores and answers (lines 178-180 and 206-280).
Success(tk) ==
    /\ Quiet
    /\ BagIn(tk, task)
    /\ tk.pc = "body"
    /\ \E status \in Statuses, up_map \in HeaderMaps, body_bytes \in Bodies :
        LET upstream_headers == PreservedHeaders(cfg, up_map)
            content_type == DeclaredContentType(up_map)
            upstream_format == format_from_content_type(content_type)
            needs_conversion ==
                should_convert_image(content_type, upstream_format, tk.desired,
                                     body_bytes.len, cfg.max_item_size)
        IN  /\ is_success(status)
            /\ \E final \in FinalPayloads(cfg, needs_conversion, body_bytes,
                                          content_type, tk.desired) :
                LET store == Cacheable(cfg, final.data)
                    resp == build_response(final.data, final.content_type,
                                           cfg.via_header, upstream_headers,
                                           FALSE, cfg.behind_cloudflare_free)
                    log == tk.log
                           \o (IF needs_conversion THEN <<"convert">> ELSE <<>>)
                           \o (IF store THEN <<"put">> ELSE <<>>)
                IN  /\ cache' = IF store
                                THEN CachePut(cache, tk.key,
                                         StoredEntry(final.data, final.content_type,
                                                     upstream_headers))
                                ELSE cache
                    /\ served' = IF store
                                 THEN CachePut(served, tk.key,
                                          [body |-> resp.body,
                                           content_type |->
                                               GetAll(resp.headers, "content-type")[1],
                                           resp |-> resp])
                                 ELSE served
                    /\ last' = [Completed(tk, "miss")
                                   EXCEPT !.status = status, !.up_map = up_map,
                                          !.content_type = content_type,
                                          !.body = body_bytes,
                                          !.needs_conversion = needs_conversion,
                                          !.conv = final.conv, !.stored = store,
                                          !.resp = resp, !.log = log]
    /\ task' = task (-) SetToBag({tk})
    /\ UNCHANGED <<cfg, started>>
    /\ UNCHANGED <<trace, ret, now, written>>
    /\ Touch

\* The response of the completed request has left the handler.
Respond ==
    /\ ~Quiet
    /\ last' = NoResult
    /\ UNCHANGED <<cfg, cache, task, started, served>>
    /\ UNCHANGED <<trace, ret, now, written>>
    /\ Touch

\* The cache drops an entry: its time to live has run out, or the capacity
\* policy evicts it (cache.rs, lines 37-46).
Expire(key) ==
    /\ Quiet
    /\ key \in DOMAIN cache
    /\ cache' = Without(cache, key)
    /\ served' = Without(served, key)
    /\ UNCHANGED <<cfg, task, started, last>>
    /\ UNCHANGED <<trace, ret, now, written>>
    /\ Touch

Next ==
    \/ Arrive
    \/ \E tk \in BagToSet(task) : SendFails(tk)
    \/ \E tk \in BagToSet(task) : SendAnswers(tk)
    \/ \E tk \in BagToSet(task) : ReadFails(tk)
    \/ \E tk \in BagToSet(task) : PassThrough(tk)
    \/ \E tk \in BagToSet(task) : Success(tk)
    \/ Respond
    \/ \E key \in DOMAIN cache : Expire(key)

Spec == Init /\ [][Next]_vars

\* ------------------------------------- the resolution of a request, by itself

\* Lines 115-151 of proxy_handler read nothing but the request and the
\* configuration: they are called here on one request per behaviour.
ResolveInit ==
    /\ cfg \in {c \in Configs : ~c.preserve_upstream_headers}
    /\ cache = <<>>
    /\ task = EmptyBag
    /\ started = 0
    /\ last = NoResult
    /\ served = <<>>
    /\ touched = {}
    /\ trace = <<>>
    /\ ret = NoRet
    /\ now = 0
    /\ written = <<>>

\* A request without a query: the format comes from the Accept header.
Negotiate ==
    /\ trace = <<>>
    /\ \E accept \in AcceptHeaders :
        LET request == Request(<<"/media", "/a">>, <<>>, accept)
        IN  /\ trace' = <<[fn |-> "negotiate", request |-> request]>>
            /\ ret' = [some |-> TRUE, value |-> Resolve(cfg, request)]
    /\ UNCHANGED <<cfg, cache, task, started, last, served, touched>>
    /\ UNCHANGED <<now, written>>

\* A request with a query: the override is looked for when configured.
Override ==
    /\ trace = <<>>
    /\ \E query \in Queries, accept \in OverrideAccepts :
        LET request == Request(<<"/media", "/a">>, query, accept)
        IN  /\ trace' = <<[fn |-> "override", request |-> request]>>
            /\ ret' = [some |-> TRUE, value |-> Resolve(cfg, request)]
    /\ UNCHANGED <<cfg, cache, task, started, last, served, touched>>
    /\ UNCHANGED <<now, written>>

\* Two requests, each resolved: their cache keys are compared.
KeyPair ==
    /\ trace = <<>>
    /\ \E first \in KeyRequests, second \in KeyRequests :
        /\ trace' = <<[fn |-> "keys", request |-> first, other |-> second]>>
        /\ ret' = [some |-> TRUE, value |-> Resolve(cfg, first),
                   other |-> Resolve(cfg, second)]
    /\ UNCHANGED <<cfg, cache, task, started, last, served, touched>>
    /\ UNCHANGED <<now, written>>

\* parse_query_for_format called on a query, as its tests call it.
ParseQuery ==
    /\ trace = <<>>
    /\ \E query \in Queries :
        /\ trace' = <<[fn |-> "parse", request |-> Request(<<"/media", "/a">>, query, NoAccept)]>>
        /\ ret' = [some |-> TRUE, value |-> parse_query_for_format(query)]
    /\ UNCHANGED <<cfg, cache, task, started, last, served, touched>>
    /\ UNCHANGED <<now, written>>

ResolveNext ==
    \/ Negotiate
    \/ Override
    \/ KeyPair
    \/ ParseQuery

ResolveSpec == ResolveInit /\ [][ResolveNext]_vars

\* ------------------------------------------------------ the cache, by itself

\* ResponseCache is called here as its tests call it: puts and gets on a few
\* keys, in any order, and the removals the cache does by itself.
CacheKeys ==
    {CacheKey(KeyPath(<<"/media", "/a">>, <<>>), FormatDebug(format)) :
        format \in {"Original", "Avif"}}

CachedResponses ==
    {CachedResponse([enc |-> "jpeg", len |-> n], content_type, NoHeaders) :
        n \in 1..MaxLen, content_type \in {CT("image", "jpeg"), CT("image", "avif")}}

CacheInit ==
    /\ cfg \in {c \in Configs : /\ ~c.preserve_upstream_headers
                                 /\ ~c.behind_cloudflare_free
                                 /\ ~c.enable_avif
                                 /\ ~c.enable_webp}
    /\ cache = <<>>
    /\ task = EmptyBag
    /\ started = 0
    /\ last = NoResult
    /\ served = <<>>
    /\ touched = {}
    /\ trace = <<>>
    /\ ret = CacheGet(<<>>, NoKey)
    /\ now = 0
    /\ written = <<>>

\* cache.put(key, response).await
Put(key, response) ==
    /\ Len(trace) < MaxOps
    /\ cache' = CachePut(cache, key, response)
    /\ trace' = Append(trace, [fn |-> "put", key |-> key, value |-> response])
    /\ ret' = CacheGet(<<>>, NoKey)
    /\ UNCHANGED <<cfg, task, started, last, served, touched>>
    /\ UNCHANGED <<now, written>>

\* cache.get(&key).await
Get(key) ==
    /\ Len(trace) < MaxOps
    /\ ret' = CacheGet(cache, key)
    /\ trace' = Append(trace, [fn |-> "get", key |-> key,
                                value |-> CacheGet(<<>>, NoKey).value])
    /\ UNCHANGED <<cfg, cache, task, started, last, served, touched>>
    /\ UNCHANGED <<now, written>>

\* The cache drops an entry by itself: time to live, or capacity.
Drop(key) ==
    /\ Len(trace) < MaxOps
    /\ key \in DOMAIN cache
    /\ cache' = Without(cache, key)
    /\ trace' = Append(trace, [fn |-> "drop", key |-> key,
                                value |-> CacheGet(<<>>, NoKey).value])
    /\ ret' = CacheGet(<<>>, NoKey)
    /\ UNCHANGED <<cfg, task, started, last, served, touched>>
    /\ UNCHANGED <<now, written>>

\* GET /metrics
Metrics ==
    /\ Len(trace) < MaxOps
    /\ ret' = [some |-> TRUE, value |-> metrics_handler(CacheStats(cache))]
    /\ trace' = Append(trace, [fn |-> "metrics", key |-> NoKey,
                                value |-> CacheGet(<<>>, NoKey).value])
    /\ UNCHANGED <<cfg, cache, task, started, last, served, touched>>
    /\ UNCHANGED <<now, written>>

CacheNext ==
    \/ \E key \in CacheKeys, response \in CachedResponses : Put(key, response)
    \/ \E key \in CacheKeys : Get(key)
    \/ \E key \in CacheKeys : Drop(key)
    \/ Metrics

CacheSpec == CacheInit /\ [][CacheNext]_vars

\* ------------------------------------------- the cache and its clock, by itself

\* Cache::builder().time_to_live(ttl): an entry is expired once ttl seconds
\* have passed since it was inserted or replaced.
Expired(written_at, ttl, at) == written_at + ttl <= at

\* A variant of AfterRead: the builder is given time_to_idle, and a read that
\* finds the entry restarts its clock.
AfterRead_Idle(w, key, at) == [k \in DOMAIN w |-> IF k = key THEN at ELSE w[k]]

\* time_to_live, not time_to_idle: a read leaves the clock of the entry alone.
AfterRead(w, key, at) == w

\* cache.insert(key, value): the clock of the entry starts at the insert.
AfterWrite(w, key, at) == [k \in (DOMAIN w) \cup {key} |-> IF k = key THEN at ELSE w[k]]

\* ResponseCache::get at an instant: the entry, when the key has one that is
\* not expired.
LiveGet(c, w, ttl, at, key) ==
    IF key \in DOMAIN c /\ ~Expired(w[key], ttl, at) THEN CacheGet(c, key)
    ELSE CacheGet(<<>>, key)

\* cache.ttl, in seconds (Duration::from_secs).
Ttls == {1, 2}

TtlResponses ==
    {CachedResponse([enc |-> "jpeg", len |-> 1], content_type, NoHeaders) :
        content_type \in {CT("image", "jpeg"), CT("image", "avif")}}

TtlInit ==
    /\ cfg \in {[c EXCEPT !.ttl = ttl] :
                   c \in {d \in Configs : /\ ~d.preserve_upstream_headers
                                            /\ ~d.behind_cloudflare_free
                                            /\ ~d.enable_avif
                                            /\ ~d.enable_webp},
                   ttl \in Ttls}
    /\ cache = <<>>
    /\ task = EmptyBag
    /\ started = 0
    /\ last = NoResult
    /\ served = <<>>
    /\ touched = {}
    /\ trace = <<>>
    /\ ret = CacheGet(<<>>, NoKey)
    /\ now = 0
    /\ written = <<>>

\* cache.put(key, response).await at the instant `now`.
PutAt(key, response) ==
    /\ Len(trace) < MaxOps
    /\ cache' = CachePut(cache, key, response)
    /\ written' = AfterWrite(written, key, now)
    /\ trace' = Append(trace, [fn |-> "put", key |-> key, at |-> now])
    /\ ret' = CacheGet(<<>>, NoKey)
    /\ UNCHANGED <<cfg, task, started, last, served, touched, now>>

\* cache.get(&key).await at the instant `now`.
GetAt(key) ==
    /\ Len(trace) < MaxOps
    /\ ret' = LiveGet(cache, written, cfg.ttl, now, key)
    /\ written' = IF ret'.some THEN AfterRead(written, key, now) ELSE written
    /\ trace' = Append(trace, [fn |-> "get", key |-> key, at |-> now])
    /\ UNCHANGED <<cfg, cache, task, started, last, served, touched, now>>

\* A second passes.
Tick ==
    /\ now < MaxTicks
    /\ now' = now + 1
    /\ UNCHANGED <<cfg, cache, task, started, last, served, touched, trace, ret, written>>

TtlNext ==
    \/ \E key \in CacheKeys, response \in TtlResponses : PutAt(key, response)
    \/ \E key \in CacheKeys : GetAt(key)
    \/ Tick

TtlSpec == TtlInit /\ [][TtlNext]_vars

\* ------------------------------------------------- the converter, by itself

\* image.quality, which validate() keeps within 1..100.
Qualities == {1, 75, 85, 100}

\* ImageConverter::new(quality, max_dimension, enable_avif, enable_webp)
ConvertInit ==
    /\ cfg \in {[c EXCEPT !.quality = quality] :
                   c \in {d \in Configs : /\ ~d.preserve_upstream_headers
                                            /\ ~d.behind_cloudflare_free},
                   quality \in Qualities}
    /\ cache = <<>>
    /\ task = EmptyBag
    /\ started = 0
    /\ last = NoResult
    /\ served = <<>>
    /\ touched = {}
    /\ trace = <<>>
    /\ ret = NoRet
    /\ now = 0
    /\ written = <<>>

\* image_converter.convert(&data, target_format)
Convert ==
    /\ trace = <<>>
    /\ \E data \in Bodies, target_format \in OutputFormat :
        \E result \in ConvertResults(data, target_format, cfg.enable_avif, cfg.enable_webp) :
            /\ trace' = <<[fn |-> "convert", data |-> data, target_format |-> target_format]>>
            /\ ret' = [some |-> TRUE, value |-> result,
                       encoder |-> IF result.ok
                                   THEN EncoderOf(target_format, cfg.quality,
                                                  cfg.enable_avif, cfg.enable_webp)
                                   ELSE NoEncoder]
    /\ UNCHANGED <<cfg, cache, task, started, last, served, touched>>
    /\ UNCHANGED <<now, written>>

ConvertNext == Convert

ConvertSpec == ConvertInit /\ [][ConvertNext]_vars

\* --------------------------------------------------- the weigher, by itself

\* The lengths of the payloads given to the cache: below and above 2^32.
DataLengths == {USize(hi, lo) : hi \in {0, 1}, lo \in 0..MaxLen}

\* cache.max_item_size, a u64 the configuration does not bound.
ItemLimits == {USize(0, MaxLen), USize(1, MaxLen)}

\* Line 261: final_data.len() <= max_item_size as usize, on 64 bits.
WithinLimit(data_len, limit) ==
    \/ data_len.hi < limit.hi
    \/ data_len.hi = limit.hi /\ data_len.lo <= limit.lo

WeighInit ==
    /\ cfg \in {[c EXCEPT !.max_item_size = limit] :
                   c \in {d \in Configs : /\ ~d.preserve_upstream_headers
                                            /\ ~d.behind_cloudflare_free
                                            /\ ~d.enable_avif
                                            /\ ~d.enable_webp},
                   limit \in ItemLimits}
    /\ cache = <<>>
    /\ task = EmptyBag
    /\ started = 0
    /\ last = NoResult
    /\ served = <<>>
    /\ touched = {}
    /\ trace = <<>>
    /\ ret = [some |-> FALSE, weight |-> 0, weighted_size |-> 0]
    /\ now = 0
    /\ written = <<>>

\* The handler stores a payload of a length within max_item_size under a key
\* that has no entry: the cache calls the weigher on it and adds the weight to
\* its weighted size.
Weigh(data_len) ==
    /\ Len(trace) < MaxOps
    /\ WithinLimit(data_len, cfg.max_item_size)
    /\ trace' = Append(trace, [fn |-> "insert", data_len |-> data_len])
    /\ ret' = [some |-> TRUE, weight |-> Weigher(data_len),
               weighted_size |-> ret.weighted_size + Weigher(data_len)]
    /\ UNCHANGED <<cfg, cache, task, started, last, served, touched>>
    /\ UNCHANGED <<now, written>>

WeighNext == \E data_len \in DataLengths : Weigh(data_len)

WeighSpec == WeighInit /\ [][WeighNext]_vars

\* ------------------------------- overlapping requests for one key, by themselves

\* What proxy_handler does to the cache, with the upstream left out: some
\* requests look their key up (lines 153-166) and, having missed, come later
\* to the store of lines 260-271, each with the payload, the content type and
\* the upstream headers it ended up with itself.
RaceContentTypes == {CT("image", "jpeg"), CT("image", "avif")}

RaceInit ==
    /\ cfg \in {c \in Configs : /\ c.preserve_upstream_headers
                                 /\ ~c.behind_cloudflare_free
                                 /\ ~c.enable_avif
                                 /\ ~c.enable_webp}
    /\ cache = <<>>
    /\ task = EmptyBag
    /\ started = 0
    /\ last = NoResult
    /\ served = <<>>
    /\ touched = {}
    /\ trace = <<>>
    /\ ret = CacheGet(<<>>, NoKey)
    /\ now = 0
    /\ written = <<>>

\* Lines 153-166: the lookup; the request that misses goes on.
Lookup(key) ==
    /\ started < MaxRequests
    /\ BagCardinality(task) < MaxTasks
    /\ started' = started + 1
    /\ ret' = CacheGet(cache, key)
    /\ trace' = Append(trace, [fn |-> "get", key |-> key,
                                value |-> CacheGet(<<>>, NoKey).value])
    /\ task' = IF CacheGet(cache, key).some THEN task
               ELSE Missed(task, [NewTask EXCEPT !.pc = "body", !.key = key,
                                                 !.log = <<"lookup">>])
    /\ UNCHANGED <<cfg, cache, last, served, touched>>
    /\ UNCHANGED <<now, written>>

\* Lines 260-271: the request stores what it ended up with, when it is within
\* max_item_size, in one call of put.
Store(tk, final_data, final_content_type, up_map) ==
    /\ BagIn(tk, task)
    /\ tk.pc = "body"
    /\ LET upstream_headers == PreservedHeaders(cfg, up_map)
           cached_response == StoredEntry(final_data, final_content_type, upstream_headers)
       IN  IF Cacheable(cfg, final_data)
           THEN /\ cache' = CachePut(cache, tk.key, cached_response)
                /\ trace' = Append(trace, [fn |-> "put", key |-> tk.key,
                                            value |-> cached_response])
           ELSE /\ cache' = cache
                /\ trace' = Append(trace, [fn |-> "skip", key |-> tk.key,
                                            value |-> cached_response])
    /\ task' = task (-) SetToBag({tk})
    /\ ret' = CacheGet(<<>>, NoKey)
    /\ UNCHANGED <<cfg, started, last, served, touched>>
    /\ UNCHANGED <<now, written>>

RaceNext ==
    \/ \E key \in CacheKeys : Lookup(key)
    \/ \E tk \in BagToSet(task), final_data \in Bodies, final_content_type \in RaceContentTypes, up_map \in HeaderMaps : Store(tk, final_data, final_content_type, up_map)

RaceSpec == RaceInit /\ [][RaceNext]_vars

\* ------------------------------- the handler as a function of what it is given

\* A request as axum hands it to the handler: the method, the Uri, the
\* HeaderMap and the body.  The value of an Accept header is its entries.
ClientRequest(method, path, query, headers, body) ==
    [method |-> method, uri |-> [path |-> path, query |-> query],
     headers |-> headers, body |-> body]

\* Lines 95-96 and 135-138: what proxy_handler reads of the request, which is
\* uri.path(), uri.query() and headers.get(ACCEPT).
Extracted(client) ==
    Request(client.uri.path, client.uri.query,
            IF HasHeader(client.headers, "accept")
            THEN Accept(GetAll(client.headers, "accept")[1])
            ELSE NoAccept)

\* A variant of UpstreamRequest: the client's method and headers go upstream.
UpstreamRequest_Forwarded(client, upstream_url) ==
    [method |-> client.method, url |-> upstream_url, headers |-> client.headers]

\* Lines 168-170: state.client.get(&upstream_url).send(), a GET of the URL
\* with the client's own headers (its user agent) and no body.
UpstreamRequest(client, upstream_url) ==
    [method |-> "GET", url |-> upstream_url,
     headers |-> << <<"user-agent", "akkoproxy">> >>]

\* What the upstream and the encoder do in one run of the handler: the send
\* fails, or it answers and the read of the body fails, or the body is read;
\* the encoder, if called on bytes it can decode, fails or gives enc_len bytes.
NoWorld ==
    [kind |-> "send_fails", status |-> 0, up_map |-> <<>>, body |-> EmptyBody,
     enc_ok |-> FALSE, enc_len |-> 1]

WorldStatuses == {200, 404}

Worlds ==
    {NoWorld}
    \cup {[NoWorld EXCEPT !.kind = "read_fails", !.status = s, !.up_map = m] :
             s \in WorldStatuses, m \in HeaderMaps}
    \cup {[NoWorld EXCEPT !.kind = "answers", !.status = s, !.up_map = m, !.body = b] :
             s \in WorldStatuses, m \in HeaderMaps, b \in Bodies}
    \cup {[kind |-> "answers", status |-> s, up_map |-> m, body |-> b,
           enc_ok |-> TRUE, enc_len |-> n] :
             s \in WorldStatuses, m \in HeaderMaps, b \in Bodies, n \in 1..MaxLen}

\* The final payload of lines 236-258 in a world: the one the encoder's
\* outcome in that world gives.
FinalIn(finals, world) ==
    LET Fits(f) == /\ f.conv = "ok" => (world.enc_ok /\ f.data.len = world.enc_len)
                   /\ f.conv = "err" => ~world.enc_ok
    IN  IF \E f \in finals : Fits(f) THEN CHOOSE f \in finals : Fits(f)
        ELSE CHOOSE f \in finals : TRUE

\* What one run of the handler gives: the response, the requests made to the
\* upstream, the cache afterwards.
Ran(resp, fetched, cch) == [resp |-> resp, fetched |-> fetched, cache |-> cch]

\* proxy_handler (lines 89-281), run to its end on a request, from a cache
\* state, in a world.
proxy_handler(c, cch, client, world) ==
    LET request == Extracted(client)
        check == PathCheck(request.path)
        resolved == Resolve(c, request)
        cached == CacheGet(cch, resolved.cache_key)
        fetched == <<UpstreamRequest(client, resolved.upstream_url)>>
        upstream_headers == PreservedHeaders(c, world.up_map)
        content_type == DeclaredContentType(world.up_map)
        needs_conversion ==
            should_convert_image(content_type, format_from_content_type(content_type),
                                 resolved.desired_format, world.body.len, c.max_item_size)
        final == FinalIn(FinalPayloads(c, needs_conversion, world.body, content_type,
                                       resolved.desired_format), world)
    IN  IF check = "redirect" THEN Ran(RootRedirect, <<>>, cch)
        ELSE IF check = "forbidden"
        THEN Ran(ProxyErrorResponse("PathNotAllowed"), <<>>, cch)
        ELSE IF cached.some THEN Ran(HitResponse(c, cached.value), <<>>, cch)
        ELSE IF world.kind # "answers"
        THEN Ran(ProxyErrorResponse("UpstreamError"), fetched, cch)
        ELSE IF ~is_success(world.status)
        THEN Ran(build_response_with_status(world.body, world.status, c.via_header,
                                            upstream_headers),
                 fetched, cch)
        ELSE Ran(build_response(final.data, final.content_type, c.via_header,
                                upstream_headers, FALSE, c.behind_cloudflare_free),
                 fetched,
                 IF Cacheable(c, final.data)
                 THEN CachePut(cch, resolved.cache_key,
                               StoredEntry(final.data, final.content_type,
                                           upstream_headers))
                 ELSE cch)

\* The requests of Requests, each sent with either method, with or without a
\* body, with or without headers a cache or a server might look at.
Methods == {"GET", "POST"}

ClientBodies == {EmptyBody, [enc |-> "junk", len |-> 1]}

OtherHeaders ==
    {<<>>,
     << <<"range", "bytes=0-0">>,
        <<"if-none-match", "*">>,
        <<"cache-control", "no-cache">>,
        <<"cookie", "session=1">> >>}

ClientRequests ==
    {ClientRequest(method, r.path, r.query,
                   (IF r.accept.some THEN << <<"accept", r.accept.entries>> >> ELSE <<>>)
                       \o other,
                   body) :
        r \in Requests, method \in Methods, other \in OtherHeaders, body \in ClientBodies}

\* The cache states a run starts from: empty, or one entry, under the key of
\* the request or under another.
StartCaches(c, client) ==
    LET entry == CachedResponse([enc |-> "avif", len |-> 1], CT("image", "avif"), NoHeaders)
    IN  {<<>>}
        \cup {[k \in {key} |-> entry] :
                 key \in {Resolve(c, Extracted(client)).cache_key,
                          CacheKey(KeyPath(<<"/media", "/elsewhere">>, <<>>), "Original")}}

PairInit ==
    /\ cfg \in {c \in Configs : c.enable_avif /\ c.enable_webp}
    /\ cache = <<>>
    /\ task = EmptyBag
    /\ started = 0
    /\ last = NoResult
    /\ served = <<>>
    /\ touched = {}
    /\ trace = <<>>
    /\ ret = NoRet
    /\ now = 0
    /\ written = <<>>

\* Two requests with the same path, query and Accept header are each run, from
\* the same cache state and in the same world.
RunPair ==
    /\ trace = <<>>
    /\ \E first \in ClientRequests, second \in ClientRequests, world \in Worlds :
        /\ first.uri = second.uri
        /\ GetAll(first.headers, "accept") = GetAll(second.headers, "accept")
        /\ \E cch \in StartCaches(cfg, first) :
            /\ trace' = <<[fn |-> "pair", request |-> first, other |-> second,
                           world |-> world, cache |-> cch]>>
            /\ ret' = [some |-> TRUE,
                       value |-> proxy_handler(cfg, cch, first, world),
                       other |-> proxy_handler(cfg, cch, second, world)]
    /\ UNCHANGED <<cfg, cache, task, started, last, served, touched>>
    /\ UNCHANGED <<now, written>>

PairNext == RunPair

PairSpec == PairInit /\ [][PairNext]_vars

\* ------------------------------------------------------------------ claims

\* C1: a request to an allowed path whose upstream answer is 2xx and whose
\* final payload is within max_item_size is answered X-Cache-Status: MISS and
\* its payload is the live entry of its key; a request that finds the entry of
\* such a response live (no expiry or eviction since) does not go upstream and
\* is answered X-Cache-Status: HIT with the body and the Content-Type of that
\* response.
C1_MissThenHit ==
    /\ \A tk \in BagToSet(task) : ~tk.lookup_live
    /\ (/\ ~Quiet
        /\ last.failure = "none"
        /\ last.status \in 200..299
        /\ last.resp.body.len <= cfg.max_item_size)
       => /\ GetAll(last.resp.headers, "x-cache-status") = <<"MISS">>
          /\ last.key \in DOMAIN served
          /\ served[last.key].body = last.resp.body
          /\ <<served[last.key].content_type>> = GetAll(last.resp.headers, "content-type")
    /\ last.outcome = "hit"
       => /\ GetAll(last.resp.headers, "x-cache-status") = <<"HIT">>
          /\ last.seen.some
          /\ last.resp.body = last.seen.body
          /\ GetAll(last.resp.headers, "content-type") = <<last.seen.content_type>>

\* A hit on an entry a converting miss stored as image/avif.
C1_Witness ==
    /\ last.outcome = "hit"
    /\ last.seen.some
    /\ GetAll(last.resp.headers, "content-type") = <<CT("image", "avif")>>
    /\ GetAll(last.resp.headers, "x-cache-status") = <<"HIT">>

\* C2: a request does at most one cache lookup, then at most one upstream
\* GET, then at most one conversion, then at most one cache put, in that
\* order; a request whose lookup hits does nothing but the lookup.
C2_LinearPipeline ==
    LET Rank(event) ==
            CASE event = "lookup" -> 1
              [] event = "fetch" -> 2
              [] event = "convert" -> 3
              [] event = "put" -> 4
        Linear(log) ==
            \A i, j \in 1..Len(log) : i < j => Rank(log[i]) < Rank(log[j])
    IN  /\ \A tk \in BagToSet(task) : Linear(tk.log) /\ ~tk.lookup_live
        /\ ~Quiet => Linear(last.log)
        /\ last.outcome = "hit" => last.log = <<"lookup">>
        /\ last.outcome \in {"redirect", "forbidden"} => last.log = <<>>

\* A request that went through all four stages.
C2_Witness == ~Quiet /\ last.log = <<"lookup", "fetch", "convert", "put">>

\* C3: a non-2xx upstream answer whose body arrives is forwarded with its
\* status and its body, the converter is not invoked and no cache entry is
\* created or replaced, so no entry ever comes from such an answer.
C3_NonSuccessPassThrough ==
    (/\ ~Quiet
     /\ last.failure = "none"
     /\ last.status # 0
     /\ last.status \notin 200..299)
    => /\ last.resp.status = last.status
       /\ last.resp.body = last.body
       /\ last.conv = "none"
       /\ "convert" \notin {last.log[i] : i \in 1..Len(last.log)}
       /\ "put" \notin {last.log[i] : i \in 1..Len(last.log)}
       /\ touched = {}
       /\ GetAll(last.resp.headers, "x-cache-status") # <<"HIT">>

\* A 404 with a small image body, asked for in another format: it would be
\* converted and stored, were it a 2xx.
C3_Witness ==
    /\ ~Quiet
    /\ last.failure = "none"
    /\ last.status = 404
    /\ last.content_type = CT("image", "jpeg")
    /\ last.desired \notin {"Original", "Jpeg"}
    /\ last.body = [enc |-> "jpeg", len |-> 1]

\* C4: the path "/" is answered 301 with a Location header, a path that
\* starts with neither /media nor /proxy (and is not "/") is answered 403 with
\* a plain-text body, and neither looks the cache up nor goes upstream.
C4_PathCheck ==
    /\ (~Quiet /\ last.path = <<"/">>)
       => /\ last.resp.status = 301
          /\ Len(GetAll(last.resp.headers, "location")) = 1
          /\ last.log = <<>>
          /\ touched = {}
    /\ (~Quiet /\ last.path # <<"/">> /\ last.path[1] \notin {"/media", "/proxy"})
       => /\ last.resp.status = 403
          /\ GetAll(last.resp.headers, "content-type") = <<TextPlainUtf8>>
          /\ last.resp.body = [text |-> "Path not allowed"]
          /\ last.log = <<>>
          /\ touched = {}

\* A request to /other is answered while an entry is live and a task is in
\* flight.
C4_Witness ==
    /\ ~Quiet
    /\ last.path = <<"/other">>
    /\ last.resp.status = 403
    /\ DOMAIN cache # {}

\* C5: a transport failure of the upstream fetch (the send, or the read of the
\* body of a 2xx or of a non-2xx answer) ends the request with 502; the fetch
\* was made once and the cache is as it was.
C5_TransportFailure ==
    (~Quiet /\ last.failure # "none")
    => /\ last.resp.status = 502
       /\ Len(SelectSeq(last.log, LAMBDA e : e = "fetch")) = 1
       /\ last.log = <<"lookup", "fetch">>
       /\ touched = {}

\* The body of a 404 could not be read.
C5_Witness ==
    /\ ~Quiet
    /\ last.failure = "read"
    /\ last.status = 404
    /\ last.resp.status = 502

\* C6: the 403 and the 502 the proxy produces itself carry the configured Via
\* header.
C6_ErrorsCarryVia ==
    (~Quiet /\ last.resp.status \in {403, 502} /\ last.outcome \in {"forbidden", "bad_gateway"})
    => GetAll(last.resp.headers, "via") = <<cfg.via_header>>

\* C7: a 3xx upstream answer is forwarded with its status and the upstream's
\* Location header, for either setting of preserve_upstream_headers.
C7_RedirectKeepsLocation ==
    (/\ ~Quiet
     /\ last.failure = "none"
     /\ last.status \in 300..399
     /\ HasHeader(last.up_map, "location"))
    => /\ last.resp.status = last.status
       /\ GetAll(last.resp.headers, "location") = GetAll(last.up_map, "location")

\* C8: on a 2xx answer the converter is invoked iff the content type starts
\* with image/, the desired format is not Original, the body is within
\* max_item_size, and the declared format does not satisfy the desired one
\* (have = want, or want = Original).
C8_ConversionDecision ==
    last.outcome = "miss"
    => LET have == format_from_content_type(last.content_type)
           satisfied == have # Nil /\ (have = last.desired \/ last.desired = "Original")
       IN  (last.conv # "none")
           <=> (/\ Len(last.content_type) >= 2
                /\ last.content_type[1] = "image"
                /\ last.content_type[2] = "/"
                /\ last.desired # "Original"
                /\ last.body.len <= cfg.max_item_size
                /\ ~satisfied)

\* The converter ran on an image declared as a format other than the desired.
C8_Witness ==
    /\ last.outcome = "miss"
    /\ last.conv = "ok"
    /\ last.content_type = CT("image", "png")
    /\ last.desired = "Jpeg"

\* C9: when the converter fails on a 2xx answer the request is answered 200
\* with the upstream bytes and the upstream content type.
C9_ConversionFailureFallsBack ==
    (last.outcome = "miss" /\ last.conv = "err")
    => /\ last.resp.status = 200
       /\ last.resp.body = last.body
       /\ GetAll(last.resp.headers, "content-type") = <<last.content_type>>

\* Bytes declared image/jpeg that do not decode.
C9_Witness ==
    /\ last.outcome = "miss"
    /\ last.conv = "err"
    /\ last.body.enc = "junk"
    /\ last.content_type = CT("image", "jpeg")

\* C10: no entry of the cache is longer than max_item_size; a 2xx result is
\* stored iff its final payload is within max_item_size, and a longer one is
\* answered 200 with X-Cache-Status: MISS and leaves the cache as it was.
C10_OnlySmallItemsStored ==
    /\ \A k \in DOMAIN cache : cache[k].data.len <= cfg.max_item_size
    /\ last.outcome = "miss"
       => /\ last.resp.status = 200
          /\ GetAll(last.resp.headers, "x-cache-status") = <<"MISS">>
          /\ IF last.resp.body.len <= cfg.max_item_size
             THEN /\ last.key \in DOMAIN cache
                  /\ cache[last.key].data = last.resp.body
             ELSE touched = {}

\* A payload over the limit was served on a key that stays absent.
C10_Witness ==
    /\ last.outcome = "miss"
    /\ last.resp.body.len > cfg.max_item_size
    /\ last.resp.status = 200
    /\ last.key \notin DOMAIN cache

\* C11: in every 200 response (miss or hit) Content-Type, Via, Cache-Control
\* and X-Cache-Status each appear exactly once, with the final content type,
\* the configured via string, "public, max-age=31536000, immutable" and HIT or
\* MISS, whatever the upstream sent under those names; with header
\* preservation on, every upstream header outside the denylist is in the
\* response with the upstream's values.
C11_OwnedHeadersOnce ==
    last.outcome \in {"miss", "hit"}
    => LET headers == last.resp.headers
           denylist == {"content-length", "transfer-encoding", "connection",
                        "content-type", "via", "cache-control", "x-cache-status"}
           upstream == IF last.outcome = "hit"
                       THEN cache[last.key].upstream_headers.map
                       ELSE last.up_map
           preserved == IF last.outcome = "hit"
                        THEN cache[last.key].upstream_headers.some
                        ELSE cfg.preserve_upstream_headers
           final_type == IF last.outcome = "hit" THEN cache[last.key].content_type
                         ELSE IF last.conv = "ok"
                              THEN CT("image", last.resp.body.enc)
                              ELSE last.content_type
       IN  /\ last.resp.status = 200
           /\ GetAll(headers, "content-type") = <<final_type>>
           /\ GetAll(headers, "via") = <<cfg.via_header>>
           /\ GetAll(headers, "cache-control")
                  = <<"public, max-age=31536000, immutable">>
           /\ GetAll(headers, "x-cache-status")
                  = <<IF last.outcome = "hit" THEN "HIT" ELSE "MISS">>
           /\ preserved
              => \A i \in 1..Len(upstream) :
                    upstream[i][1] \notin denylist
                    => \E j \in 1..Len(headers) : headers[j] = upstream[i]

\* A miss with preservation on, where the upstream sent its own Via,
\* Cache-Control and X-Cache-Status next to a header of its own.
C11_Witness ==
    /\ last.outcome = "miss"
    /\ cfg.preserve_upstream_headers
    /\ GetAll(last.up_map, "x-cache-status") = <<"upstream-hit">>
    /\ GetAll(last.up_map, "via") = <<"upstream-proxy">>
    /\ GetAll(last.resp.headers, "x-custom-header") = <<"custom-value">>

\* C12: in every response built from an upstream response (miss, hit, non-2xx
\* pass-through) Access-Control-Allow-Origin appears exactly once; it is the
\* upstream's own value when the upstream supplied the header and "*" only
\* when it did not.
C12_CorsFollowsUpstream ==
    (/\ last.outcome \in {"miss", "passthrough"}
     /\ last.failure = "none")
    => LET mine == GetAll(last.resp.headers, "access-control-allow-origin")
           theirs == GetAll(last.up_map, "access-control-allow-origin")
       IN  /\ Len(mine) = 1
           /\ mine = IF Len(theirs) > 0 THEN theirs ELSE <<"*">>

\* C13: a 200 response (miss or hit) carries Vary: Accept when
\* behind_cloudflare_free is on; when it is off the response has no Vary but
\* what was copied from the upstream; a non-2xx pass-through never has a Vary
\* but what was copied from the upstream.
C13_VaryAccept ==
    LET mine == GetAll(last.resp.headers, "vary")
        stored == IF last.outcome = "hit"
                  THEN cache[last.key].upstream_headers
                  ELSE IF cfg.preserve_upstream_headers
                       THEN [some |-> TRUE, map |-> last.up_map]
                       ELSE [some |-> FALSE, map |-> <<>>]
        theirs == IF stored.some THEN GetAll(stored.map, "vary") ELSE <<>>
    IN  /\ last.outcome \in {"miss", "hit"}
           => mine = theirs \o (IF cfg.behind_cloudflare_free
                                THEN <<"Accept">> ELSE <<>>)
        /\ (last.outcome = "passthrough" /\ last.failure = "none")
           => mine = theirs

\* A hit, with the mode on, on an entry stored with the upstream's own Vary.
C13_Witness ==
    /\ last.outcome = "hit"
    /\ cfg.behind_cloudflare_free
    /\ GetAll(last.resp.headers, "vary") = <<"Origin", "Accept">>

\* C14 as claimed: for every Accept header the format returned is that of a
\* recognized, enabled entry than which no such entry has a numerically higher
\* q (1.0 when absent or unparsable), and which no such entry of the same q
\* precedes in the header.
C14_HighestQualityWins ==
    (Len(trace) = 1 /\ trace[1].fn = "negotiate" /\ trace[1].request.accept.some)
    => LET entries == trace[1].request.accept.entries
           Recognized(e) ==
               \/ e.media \in {"image/jpeg", "image/png", "image/*", "*/*"}
               \/ e.media = "image/avif" /\ cfg.enable_avif
               \/ e.media = "image/webp" /\ cfg.enable_webp
           FormatOf(e) ==
               CASE e.media = "image/avif" -> "Avif"
                 [] e.media = "image/webp" -> "WebP"
                 [] e.media = "image/jpeg" -> "Jpeg"
                 [] e.media = "image/png" -> "Png"
                 [] OTHER -> "Original"
           Q(e) == IF \E k \in 1..Len(e.segs) : e.segs[k] # NoQ
                   THEN e.segs[CHOOSE k \in 1..Len(e.segs) :
                                   /\ e.segs[k] # NoQ
                                   /\ \A l \in 1..(k - 1) : e.segs[l] = NoQ]
                   ELSE 10
           Number(e) == Q(e) # NaNQ
           candidates == {i \in 1..Len(entries) : Recognized(entries[i])}
       IN  candidates # {}
           => \E i \in candidates :
                 /\ ret.value.desired_format = FormatOf(entries[i])
                 /\ \A j \in candidates :
                       /\ ~(/\ Number(entries[i])
                            /\ Number(entries[j])
                            /\ Q(entries[j]) > Q(entries[i]))
                       /\ ~(/\ j < i
                            /\ Number(entries[i])
                            /\ Number(entries[j])
                            /\ Q(entries[j]) = Q(entries[i]))

\* C14, amended: the same for every Accept header in which no recognized,
\* enabled entry has a q that reads as NaN.
C14_HighestNumberWins ==
    (Len(trace) = 1 /\ trace[1].fn = "negotiate" /\ trace[1].request.accept.some)
    => LET entries == trace[1].request.accept.entries
           Recognized(e) ==
               \/ e.media \in {"image/jpeg", "image/png", "image/*", "*/*"}
               \/ e.media = "image/avif" /\ cfg.enable_avif
               \/ e.media = "image/webp" /\ cfg.enable_webp
           FormatOf(e) ==
               CASE e.media = "image/avif" -> "Avif"
                 [] e.media = "image/webp" -> "WebP"
                 [] e.media = "image/jpeg" -> "Jpeg"
                 [] e.media = "image/png" -> "Png"
                 [] OTHER -> "Original"
           Q(e) == IF \E k \in 1..Len(e.segs) : e.segs[k] # NoQ
                   THEN e.segs[CHOOSE k \in 1..Len(e.segs) :
                                   /\ e.segs[k] # NoQ
                                   /\ \A l \in 1..(k - 1) : e.segs[l] = NoQ]
                   ELSE 10
           candidates == {i \in 1..Len(entries) : Recognized(entries[i])}
       IN  (candidates # {} /\ \A i \in candidates : Q(entries[i]) # NaNQ)
           => \E i \in candidates :
                 /\ ret.value.desired_format = FormatOf(entries[i])
                 /\ \A j \in candidates :
                       /\ Q(entries[j]) <= Q(entries[i])
                       /\ j < i => Q(entries[j]) < Q(entries[i])

\* Three recognized entries, the middle one of the highest q, the outer two
\* of the same lower q: the middle one wins.
C14_Witness ==
    /\ Len(trace) = 1
    /\ trace[1].fn = "negotiate"
    /\ cfg.enable_webp
    /\ trace[1].request.accept
          = Accept(<<Entry("image/jpeg", <<5>>), Entry("image/png", <<NoQ, 9>>),
                     Entry("image/webp", <<5>>)>>)
    /\ ret.value.desired_format = "Png"

\* C15: the negotiation always returns a format; it is not Avif when AVIF is
\* disabled and not WebP when WebP is disabled; it is Original when the
\* Accept header is missing (or not text) and when no entry of it is a
\* recognized, enabled media type.
C15_NegotiationTotal ==
    (Len(trace) = 1 /\ trace[1].fn = "negotiate")
    => LET accept == trace[1].request.accept
           format == ret.value.desired_format
           Usable(e) ==
               \/ e.media \in {"image/jpeg", "image/png", "image/*", "*/*"}
               \/ e.media = "image/avif" /\ cfg.enable_avif
               \/ e.media = "image/webp" /\ cfg.enable_webp
       IN  /\ ret.some
           /\ format \in {"Avif", "WebP", "Jpeg", "Png", "Original"}
           /\ ~cfg.enable_avif => format # "Avif"
           /\ ~cfg.enable_webp => format # "WebP"
           /\ ~accept.some => format = "Original"
           /\ (\A i \in 1..Len(accept.entries) : ~Usable(accept.entries[i]))
              => format = "Original"

\* image/avif first, with AVIF disabled and WebP enabled: WebP is returned.
C15_Witness ==
    /\ Len(trace) = 1
    /\ trace[1].fn = "negotiate"
    /\ ~cfg.enable_avif
    /\ cfg.enable_webp
    /\ trace[1].request.accept
          = Accept(<<Entry("image/avif", <<>>), Entry("image/webp", <<>>),
                     Entry("image/jpeg", <<>>)>>)
    /\ ret.value.desired_format = "WebP"

\* C16 as claimed: with the query override on, when the query has a `format`
\* parameter whose normalized value is avif or webp, the desired format is
\* the format such a parameter names, whatever the Accept header and the
\* enable flags; no `format` parameter is in the query sent upstream and the
\* other parameters are, in their order.
C16_OverrideByAnyFormat ==
    LET request == trace[1].request
        query == request.query
        IsFormat(p) == p.eq /\ p.key = "format"
        Reads(v, words) ==
            \E i \in 1..Len(v) :
                v[i] \in words /\ \A k \in (1..Len(v)) \ {i} : v[k] = "+"
        Named(p) == IF Reads(p.value, {"avif", "AVIF"}) THEN "Avif"
                    ELSE IF Reads(p.value, {"webp", "WebP"}) THEN "WebP"
                    ELSE "none"
        formats == {i \in 1..Len(query) : IsFormat(query[i])}
        others == SelectSeq(query, LAMBDA p : ~IsFormat(p))
        forwarded == IF others = <<>>
                     THEN <<cfg.upstream_url, request.path>>
                     ELSE <<cfg.upstream_url, request.path, "?", others>>
    IN  (/\ Len(trace) = 1
         /\ trace[1].fn = "override"
         /\ cfg.behind_cloudflare_free
         /\ \E i \in formats : Named(query[i]) # "none")
        => /\ \E i \in formats : ret.value.desired_format = Named(query[i])
           /\ ret.value.upstream_url = forwarded

\* C16, amended: the same when the last `format` parameter of the query is
\* one whose normalized value is avif or webp; the desired format is then the
\* format that parameter names.
C16_OverrideByLastFormat ==
    LET request == trace[1].request
        query == request.query
        IsFormat(p) == p.eq /\ p.key = "format"
        Reads(v, words) ==
            \E i \in 1..Len(v) :
                v[i] \in words /\ \A k \in (1..Len(v)) \ {i} : v[k] = "+"
        Named(p) == IF Reads(p.value, {"avif", "AVIF"}) THEN "Avif"
                    ELSE IF Reads(p.value, {"webp", "WebP"}) THEN "WebP"
                    ELSE "none"
        formats == {i \in 1..Len(query) : IsFormat(query[i])}
        others == SelectSeq(query, LAMBDA p : ~IsFormat(p))
        forwarded == IF others = <<>>
                     THEN <<cfg.upstream_url, request.path>>
                     ELSE <<cfg.upstream_url, request.path, "?", others>>
        final == CHOOSE i \in formats : \A j \in formats : j <= i
    IN  (/\ Len(trace) = 1
         /\ trace[1].fn = "override"
         /\ cfg.behind_cloudflare_free
         /\ formats # {}
         /\ Named(query[final]) # "none")
        => /\ ret.value.desired_format = Named(query[final])
           /\ ret.value.upstream_url = forwarded

\* format=AVIF&x=1 with AVIF disabled and Accept: image/jpeg;q=0.5 resolves to
\* Avif, and x=1 alone goes upstream.
C16_Witness ==
    /\ Len(trace) = 1
    /\ trace[1].fn = "override"
    /\ cfg.behind_cloudflare_free
    /\ ~cfg.enable_avif
    /\ trace[1].request.query = <<Param("format", <<"AVIF">>), Param("x", <<"1">>)>>
    /\ trace[1].request.accept = Accept(<<Entry("image/jpeg", <<5>>)>>)
    /\ ret.value.desired_format = "Avif"
    /\ ret.value.upstream_url
          = <<cfg.upstream_url, <<"/media", "/a">>, "?", <<Param("x", <<"1">>)>> >>

\* C17 as claimed: with the query override on, when the query has a `format`
\* parameter whose normalized value is neither avif nor webp, there is no
\* override (the desired format is the one negotiated from the Accept
\* header), no `format` parameter is in the query sent upstream, and the
\* parameters without '=' are.
C17_NoOverrideByAnyUnknown ==
    LET request == trace[1].request
        query == request.query
        IsFormat(p) == p.eq /\ p.key = "format"
        Reads(v, words) ==
            \E i \in 1..Len(v) :
                v[i] \in words /\ \A k \in (1..Len(v)) \ {i} : v[k] = "+"
        Named(p) == IF Reads(p.value, {"avif", "AVIF"}) THEN "Avif"
                    ELSE IF Reads(p.value, {"webp", "WebP"}) THEN "WebP"
                    ELSE "none"
        formats == {i \in 1..Len(query) : IsFormat(query[i])}
        others == SelectSeq(query, LAMBDA p : ~IsFormat(p))
        forwarded == IF others = <<>>
                     THEN <<cfg.upstream_url, request.path>>
                     ELSE <<cfg.upstream_url, request.path, "?", others>>
    IN  (/\ Len(trace) = 1
         /\ trace[1].fn = "override"
         /\ cfg.behind_cloudflare_free
         /\ \E i \in formats : Named(query[i]) = "none")
        => /\ ret.value.desired_format = DesiredFormat(cfg, Nil, request.accept)
           /\ ret.value.upstream_url = forwarded
           /\ \A i \in 1..Len(query) :
                 ~query[i].eq => \E j \in 1..Len(others) : others[j] = query[i]

\* C17, amended: the same when the last `format` parameter of the query is
\* one whose normalized value is neither avif nor webp.
C17_NoOverrideByLastUnknown ==
    LET request == trace[1].request
        query == request.query
        IsFormat(p) == p.eq /\ p.key = "format"
        Reads(v, words) ==
            \E i \in 1..Len(v) :
                v[i] \in words /\ \A k \in (1..Len(v)) \ {i} : v[k] = "+"
        Named(p) == IF Reads(p.value, {"avif", "AVIF"}) THEN "Avif"
                    ELSE IF Reads(p.value, {"webp", "WebP"}) THEN "WebP"
                    ELSE "none"
        formats == {i \in 1..Len(query) : IsFormat(query[i])}
        others == SelectSeq(query, LAMBDA p : ~IsFormat(p))
        forwarded == IF others = <<>>
                     THEN <<cfg.upstream_url, request.path>>
                     ELSE <<cfg.upstream_url, request.path, "?", others>>
        final == CHOOSE i \in formats : \A j \in formats : j <= i
    IN  (/\ Len(trace) = 1
         /\ trace[1].fn = "override"
         /\ cfg.behind_cloudflare_free
         /\ formats # {}
         /\ Named(query[final]) = "none")
        => /\ ret.value.desired_format = DesiredFormat(cfg, Nil, request.accept)
           /\ ret.value.upstream_url = forwarded
           /\ \A i \in 1..Len(query) :
                 ~query[i].eq => \E j \in 1..Len(others) : others[j] = query[i]

\* format=webp+ignored&debug with Accept: image/avif resolves to Avif by the
\* Accept header, and debug alone goes upstream.
C17_Witness ==
    /\ Len(trace) = 1
    /\ trace[1].fn = "override"
    /\ cfg.behind_cloudflare_free
    /\ cfg.enable_avif
    /\ trace[1].request.query
          = <<Param("format", <<"webp", "+", "ignored">>),
              [key |-> "debug", eq |-> FALSE, value |-> <<>>]>>
    /\ trace[1].request.accept = Accept(<<Entry("image/avif", <<>>)>>)
    /\ ret.value.desired_format = "Avif"
    /\ ret.value.upstream_url
          = <<cfg.upstream_url, <<"/media", "/a">>, "?",
              <<[key |-> "debug", eq |-> FALSE, value |-> <<>>]>> >>

\* C18: two requests have the same cache key iff their paths are equal, their
\* raw queries are equal and their desired formats are equal; the key holds
\* the raw query, `format` parameter included, also when the query sent
\* upstream has lost it, so that format=avif and format=AVIF have two keys.
C18_CacheKeyIsRawQuery ==
    (Len(trace) = 1 /\ trace[1].fn = "keys")
    => LET first == trace[1].request
           second == trace[1].other
           Raw(r) == IF r.query = <<>> THEN <<r.path>> ELSE <<r.path, "?", r.query>>
       IN  /\ (ret.value.cache_key = ret.other.cache_key)
              <=> (/\ first.path = second.path
                   /\ first.query = second.query
                   /\ ret.value.desired_format = ret.other.desired_format)
           /\ ret.value.cache_key.path = Raw(first)
           /\ ret.other.cache_key.path = Raw(second)

\* format=avif and format=AVIF on one path, both resolved to Avif by the
\* override, both sent upstream without a query: two keys.
C18_Witness ==
    /\ Len(trace) = 1
    /\ trace[1].fn = "keys"
    /\ cfg.behind_cloudflare_free
    /\ trace[1].request.path = trace[1].other.path
    /\ trace[1].request.query = <<Param("format", <<"avif">>)>>
    /\ trace[1].other.query = <<Param("format", <<"AVIF">>)>>
    /\ ret.value.desired_format = "Avif"
    /\ ret.other.desired_format = "Avif"
    /\ ret.value.upstream_url = ret.other.upstream_url
    /\ ret.value.cache_key # ret.other.cache_key

\* C19: a get of a key returns what the last put of that key stored (the same
\* data and content type), provided the cache has not dropped the key since;
\* a get of a key that was never put returns none.
C19_PutThenGet ==
    (Len(trace) > 0 /\ trace[Len(trace)].fn = "get")
    => LET key == trace[Len(trace)].key
           puts == {i \in 1..Len(trace) : trace[i].fn = "put" /\ trace[i].key = key}
           latest == CHOOSE i \in puts : \A j \in puts : j <= i
           dropped == \E i \in 1..Len(trace) :
                         /\ trace[i].fn = "drop"
                         /\ trace[i].key = key
                         /\ i > latest
       IN  /\ puts = {} => ~ret.some
           /\ (puts # {} /\ ~dropped)
              => /\ ret.some
                 /\ ret.value.data = trace[latest].value.data
                 /\ ret.value.content_type = trace[latest].value.content_type

\* Two puts of one key with different values, then a get: the second value.
C19_Witness ==
    /\ Len(trace) = 3
    /\ trace[1].fn = "put"
    /\ trace[2].fn = "put"
    /\ trace[3].fn = "get"
    /\ trace[1].key = trace[2].key
    /\ trace[3].key = trace[2].key
    /\ trace[1].value.data # trace[2].value.data
    /\ trace[1].value.content_type # trace[2].value.content_type
    /\ ret.some
    /\ ret.value = trace[2].value


\* C22: there is no request coalescing.  Every request in flight is one that
\* missed and is at its own upstream fetch or at the read of its own answer,
\* and it can take its next step whatever the other requests in flight are
\* doing, those for the same key included; a request that ends as a miss has
\* made one fetch of its own, its own conversion when one was needed, and its
\* own put when its payload is within max_item_size.
C22_NoCoalescing ==
    /\ \A tk \in BagToSet(task) :
          /\ tk.pc \in {"fetch", "body"}
          /\ tk.log = IF tk.pc = "fetch" THEN <<"lookup">> ELSE <<"lookup", "fetch">>
          /\ last.outcome = "none"
             => IF tk.pc = "fetch" THEN ENABLED SendAnswers(tk)
                ELSE ENABLED Success(tk)
    /\ last.outcome = "miss"
       => /\ Len(SelectSeq(last.log, LAMBDA e : e = "fetch")) = 1
          /\ last.conv # "none"
             => Len(SelectSeq(last.log, LAMBDA e : e = "convert")) = 1
          /\ last.resp.body.len <= cfg.max_item_size
             => /\ Len(SelectSeq(last.log, LAMBDA e : e = "put")) = 1
                /\ cache[last.key].data = last.resp.body

\* A request ends as a miss and stores its payload while another request for
\* the same key, which has made its own fetch, is still reading its answer.
C22_Witness ==
    /\ last.outcome = "miss"
    /\ last.stored
    /\ \E tk \in BagToSet(task) : tk.key = last.key /\ tk.pc = "body"

\* C23: a miss or a hit is answered with status 200 whatever 2xx status the
\* upstream returned, and a pass-through is answered with the upstream's
\* status.
C23_StatusOfResponse ==
    /\ last.outcome \in {"miss", "hit"} => last.resp.status = 200
    /\ (last.outcome = "miss" /\ last.status # 200) => last.status \in 201..299
    /\ (last.outcome = "passthrough" /\ last.failure = "none")
       => /\ last.resp.status = last.status
          /\ last.status \notin 200..299

\* The upstream answered 206; the miss is answered 200.
C23_Witness ==
    /\ last.outcome = "miss"
    /\ last.status = 206
    /\ last.resp.status = 200


\* C25: in the pass-through of a non-2xx answer with header preservation on,
\* the only upstream headers withheld are Content-Length, Transfer-Encoding
\* and Connection, Via being replaced by the configured value: the upstream's
\* Content-Type is forwarded, and the response has no Cache-Control and no
\* X-Cache-Status but the upstream's.
C25_PassThroughHeaders ==
    (/\ last.outcome = "passthrough"
     /\ last.failure = "none"
     /\ cfg.preserve_upstream_headers)
    => LET headers == last.resp.headers
           upstream == last.up_map
           withheld == {"content-length", "transfer-encoding", "connection"}
       IN  /\ \A i \in 1..Len(upstream) :
                 upstream[i][1] \notin withheld \cup {"via"}
                 => \E j \in 1..Len(headers) : headers[j] = upstream[i]
           /\ \A j \in 1..Len(headers) : headers[j][1] \notin withheld
           /\ GetAll(headers, "content-type") = GetAll(upstream, "content-type")
           /\ GetAll(headers, "via") = <<cfg.via_header>>
           /\ GetAll(headers, "cache-control") = GetAll(upstream, "cache-control")
           /\ GetAll(headers, "x-cache-status") = GetAll(upstream, "x-cache-status")


\* C26: when the conversion is made and succeeds, the content type served,
\* and stored with the entry, is the mime type of what was encoded: image/avif
\* for Avif with AVIF enabled, image/webp for WebP with WebP enabled,
\* image/jpeg for Jpeg, image/png for Png, and image/jpeg for an Avif or WebP
\* target whose codec is disabled, which is then encoded as JPEG.
C26_ContentTypeOfEncoding ==
    (last.outcome = "miss" /\ last.conv = "ok")
    => LET encoded ==
               CASE last.desired = "Avif" /\ cfg.enable_avif -> "avif"
                 [] last.desired = "Avif" /\ ~cfg.enable_avif -> "jpeg"
                 [] last.desired = "WebP" /\ cfg.enable_webp -> "webp"
                 [] last.desired = "WebP" /\ ~cfg.enable_webp -> "jpeg"
                 [] last.desired = "Jpeg" -> "jpeg"
                 [] last.desired = "Png" -> "png"
       IN  /\ last.resp.body.enc = encoded
           /\ GetAll(last.resp.headers, "content-type") = <<<<"image", "/", encoded>>>>
           /\ last.stored
              => /\ cache[last.key].data.enc = encoded
                 /\ cache[last.key].content_type = <<"image", "/", encoded>>

\* format=webp with WebP disabled: the PNG of the upstream is encoded as JPEG,
\* served and stored as image/jpeg under the key of WebP.
C26_Witness ==
    /\ last.outcome = "miss"
    /\ last.conv = "ok"
    /\ last.desired = "WebP"
    /\ ~cfg.enable_webp
    /\ last.content_type = <<"image", "/", "png">>
    /\ last.stored
    /\ last.key.format = "WebP"
    /\ cache[last.key].content_type = <<"image", "/", "jpeg">>


\* C21: a get returns the entry of a key only while less than the TTL has
\* passed since the last put of that key, however often the key was read in
\* between; the TTL of a key runs from its last put, so that a put on a key
\* that has an entry restarts it.
C21_TimeToLive ==
    (Len(trace) > 0 /\ trace[Len(trace)].fn = "get")
    => LET read == trace[Len(trace)]
           puts == {i \in 1..Len(trace) : trace[i].fn = "put" /\ trace[i].key = read.key}
           latest == CHOOSE i \in puts : \A j \in puts : j <= i
       IN  /\ puts = {} => ~ret.some
           /\ puts # {} => (ret.some <=> read.at - trace[latest].at < cfg.ttl)

\* A put, a read of the key one second later that finds it, and a read at the
\* end of the TTL counted from the put, that does not.
C21_Witness ==
    /\ Len(trace) = 3
    /\ trace[1].fn = "put"
    /\ trace[2].fn = "get"
    /\ trace[3].fn = "get"
    /\ trace[2].key = trace[1].key
    /\ trace[3].key = trace[1].key
    /\ trace[2].at > trace[1].at
    /\ trace[2].at < trace[1].at + cfg.ttl
    /\ trace[3].at = trace[1].at + cfg.ttl
    /\ ~ret.some


\* C24 as claimed: GET /metrics is answered 200 with a text/plain content type
\* and a body of exactly two lines, `cache_entries <n>` and
\* `cache_size_bytes <n>`, the numbers being the number of entries of the
\* cache and the sum of their weights at the call.
C24_MetricsTwoLines ==
    (Len(trace) > 0 /\ trace[Len(trace)].fn = "metrics")
    => LET response == ret.value
           content_type == GetAll(response.headers, "content-type")
           RECURSIVE Total(_)
           Total(keys) ==
               IF keys = {} THEN 0
               ELSE LET k == CHOOSE k \in keys : TRUE
                        size == cache[k].data.len
                    IN  (IF size < 1 THEN 1 ELSE size) + Total(keys \ {k})
       IN  /\ response.status = 200
           /\ Len(content_type) = 1
           /\ SubSeq(content_type[1], 1, 3) = <<"text", "/", "plain">>
           /\ Len(response.body) = 2
           /\ response.body[1] = <<"cache_entries", Cardinality(DOMAIN cache)>>
           /\ response.body[2] = <<"cache_size_bytes", Total(DOMAIN cache)>>

\* C24, amended: the content type is text/plain; version=0.0.4 and the body
\* has three lines, the comment `# Cache Statistics` and then the two of the
\* claim.
C24_MetricsAfterComment ==
    (Len(trace) > 0 /\ trace[Len(trace)].fn = "metrics")
    => LET response == ret.value
           content_type == GetAll(response.headers, "content-type")
           RECURSIVE Total(_)
           Total(keys) ==
               IF keys = {} THEN 0
               ELSE LET k == CHOOSE k \in keys : TRUE
                        size == cache[k].data.len
                    IN  (IF size < 1 THEN 1 ELSE size) + Total(keys \ {k})
       IN  /\ response.status = 200
           /\ content_type = << <<"text", "/", "plain", ";", "version=0.0.4">> >>
           /\ Len(response.body) = 3
           /\ response.body[1] = <<"# Cache Statistics">>
           /\ response.body[2] = <<"cache_entries", Cardinality(DOMAIN cache)>>
           /\ response.body[3] = <<"cache_size_bytes", Total(DOMAIN cache)>>

\* The metrics of a cache of two entries, of one and of two bytes.
C24_Witness ==
    /\ Len(trace) = 3
    /\ trace[3].fn = "metrics"
    /\ Cardinality(DOMAIN cache) = 2
    /\ ret.value.body[2] = <<"cache_entries", 2>>
    /\ ret.value.body[3] = <<"cache_size_bytes", 3>>


\* C27: the encoders follow the configuration.  Whenever the converter
\* encodes, a JPEG output (the Jpeg target, and the fallback of a disabled
\* codec) is encoded at the configured quality, an AVIF output at the
\* configured quality with the fastest speed, and a WebP output lossless.
C27_EncoderParameters ==
    (/\ Len(trace) = 1
     /\ trace[1].fn = "convert"
     /\ ret.value.ok
     /\ trace[1].target_format # "Original")
    => /\ ret.encoder.codec \in {"jpeg", "avif", "webp", "png"}
       /\ ret.encoder.codec = "jpeg"
          => ret.encoder.quality = cfg.quality /\ ~ret.encoder.lossless
       /\ ret.encoder.codec = "avif"
          => ret.encoder.quality = cfg.quality /\ ret.encoder.speed = 10
       /\ ret.encoder.codec = "webp" => ret.encoder.lossless


\* C28: the upstream GET goes to upstream_base + path, followed by '?' and the
\* upstream query only when that query is not empty.  With the query override
\* on, the upstream query is the query without its `format` parameters, so a
\* query of nothing but a `format` parameter gives no '?'; with the override
\* off it is the raw query, `format` parameters included, and the format is
\* the one negotiated from the Accept header.
C28_UpstreamUrl ==
    (Len(trace) = 1 /\ trace[1].fn \in {"override", "negotiate"})
    => LET request == trace[1].request
           others == SelectSeq(request.query, LAMBDA p : ~(p.eq /\ p.key = "format"))
           upstream_query == IF cfg.behind_cloudflare_free THEN others ELSE request.query
           url == ret.value.upstream_url
       IN  /\ Len(url) \in {2, 4}
           /\ url[1] = cfg.upstream_url
           /\ url[2] = request.path
           /\ Len(url) = 2 <=> upstream_query = <<>>
           /\ Len(url) = 4 => url[3] = "?" /\ url[4] = upstream_query
           /\ ~cfg.behind_cloudflare_free
              => ret.value.desired_format
                    = parse_accept_header(
                          IF request.accept.some THEN request.accept.entries
                          ELSE <<[media |-> "*/*", segs |-> <<>>]>>,
                          cfg.enable_avif, cfg.enable_webp)

\* With the override on, format=webp alone: WebP, and no '?' in the URL.
C28_Witness ==
    /\ Len(trace) = 1
    /\ trace[1].fn = "override"
    /\ cfg.behind_cloudflare_free
    /\ trace[1].request.query = <<Param("format", <<"+", "webp", "+">>)>>
    /\ ret.value.desired_format = "WebP"
    /\ ret.value.upstream_url = <<cfg.upstream_url, <<"/media", "/a">> >>


\* C29: the weight charged for an entry is the byte length of its data, 1 for
\* empty data, for every length within max_item_size, and the weighted size
\* is the sum of these over the entries stored.
C29_WeightIsLength ==
    Len(trace) > 0
    => LET Charged(n) == IF n.hi = 0 /\ n.lo = 0 THEN [hi |-> 0, lo |-> 1] ELSE n
           RECURSIVE High(_), Low(_)
           High(i) == IF i = 0 THEN 0 ELSE Charged(trace[i].data_len).hi + High(i - 1)
           Low(i) == IF i = 0 THEN 0 ELSE Charged(trace[i].data_len).lo + Low(i - 1)
       IN  /\ [hi |-> 0, lo |-> ret.weight] = Charged(trace[Len(trace)].data_len)
           /\ [hi |-> 0, lo |-> ret.weighted_size]
                  = [hi |-> High(Len(trace)), lo |-> Low(Len(trace))]


\* C30: the response to a hit is the response of the miss that stored the
\* entry, in status, in body and in every header (Content-Type, the upstream
\* headers that were preserved, the CORS value), but for X-Cache-Status, which
\* is HIT where the miss had MISS.
C30_HitReplaysMiss ==
    last.outcome = "hit"
    => LET miss == last.seen.resp
           hit == last.resp
       IN  /\ last.seen.some
           /\ hit.status = miss.status
           /\ hit.body = miss.body
           /\ Len(hit.headers) = Len(miss.headers)
           /\ \A i \in 1..Len(miss.headers) :
                 /\ hit.headers[i][1] = miss.headers[i][1]
                 /\ IF miss.headers[i][1] = "x-cache-status"
                    THEN miss.headers[i][2] = "MISS" /\ hit.headers[i][2] = "HIT"
                    ELSE hit.headers[i][2] = miss.headers[i][2]

\* A hit on an entry stored with the upstream's headers: the upstream's CORS
\* value and its own header are replayed.
C30_Witness ==
    /\ last.outcome = "hit"
    /\ cfg.preserve_upstream_headers
    /\ GetAll(last.resp.headers, "access-control-allow-origin") = <<"https://up.example">>
    /\ GetAll(last.resp.headers, "x-custom-header") = <<"custom-value">>
    /\ GetAll(last.seen.resp.headers, "x-cache-status") = <<"MISS">>

\* C31: when overlapping requests for one key have each missed and each
\* stored, the cache holds one entry for the key and that entry is, whole, what
\* one of them stored (the one whose put came last): its data, its content
\* type and its upstream headers are never those of different requests.  A key
\* no request stored has no entry.
C31_EntryOfOneRequest ==
    \A key \in CacheKeys :
        LET puts == {i \in 1..Len(trace) : trace[i].fn = "put" /\ trace[i].key = key}
            latest == CHOOSE i \in puts : \A j \in puts : j <= i
        IN  /\ puts = {} => key \notin DOMAIN cache
            /\ puts # {}
               => /\ key \in DOMAIN cache
                  /\ cache[key] = trace[latest].value
                  /\ cache[key].data = trace[latest].value.data
                  /\ cache[key].content_type = trace[latest].value.content_type
                  /\ cache[key].upstream_headers = trace[latest].value.upstream_headers
            /\ CacheStats(cache).entry_count
                   = Cardinality({trace[i].key : i \in {j \in 1..Len(trace) : trace[j].fn = "put"}})

\* Two requests for one key both miss, then both store, entries that differ in
\* data, content type and upstream headers; both have completed.
C31_Witness ==
    /\ Len(trace) = 4
    /\ task = EmptyBag
    /\ trace[1].fn = "get" /\ trace[2].fn = "get"
    /\ trace[3].fn = "put" /\ trace[4].fn = "put"
    /\ \A i \in 1..4 : trace[i].key = trace[1].key
    /\ trace[3].value.data # trace[4].value.data
    /\ trace[3].value.content_type # trace[4].value.content_type
    /\ trace[3].value.upstream_headers # trace[4].value.upstream_headers
    /\ DOMAIN cache = {trace[1].key}
    /\ cache[trace[1].key] = trace[4].value

\* C32: a request that ends as the 301 redirect, a 403, a 502, a forwarded
\* non-2xx answer or a cache hit leaves every entry of the cache as it was, and
\* so does every step of a request that has not ended; the one step of a
\* request that changes the cache is the end of a miss on a 2xx answer whose
\* final payload is within max_item_size, and it changes the entry of that
\* request's own key and no other.  (The only other change is the cache
\* dropping an entry by itself, which is no request's step.)
C32_OnlyStoringMissWrites ==
    [][LET changed == Changed(cache, cache')
       IN  /\ last'.outcome \in {"redirect", "forbidden", "bad_gateway", "passthrough", "hit"}
              => changed = {}
           /\ (last'.outcome = "miss" /\ last'.resp.body.len > cfg.max_item_size)
              => changed = {}
           /\ last'.outcome = "miss"
              => /\ last'.status \in 200..299
                 /\ changed \subseteq {last'.key}
                 /\ \A k \in (DOMAIN cache) \ {last'.key} :
                       k \in DOMAIN cache' /\ cache'[k] = cache[k]
           /\ changed # {}
              => \/ /\ last'.outcome = "miss"
                    /\ last'.stored
                    /\ last'.resp.body.len <= cfg.max_item_size
                    /\ changed = {last'.key}
                 \/ /\ task' = task
                    /\ started' = started
                    /\ last' = last
                    /\ \E key \in DOMAIN cache : cache' = Without(cache, key)
      ]_vars

\* A miss has just stored its entry beside the entry of another key, which it
\* left alone.
C32_Witness ==
    /\ last.outcome = "miss"
    /\ last.stored
    /\ touched = {last.key}
    /\ Cardinality(DOMAIN cache) = 2
    /\ \E k \in DOMAIN cache : k # last.key /\ served[k].body = cache[k].data

\* C33: the handler reads of the client's request its path, its raw query and
\* its Accept header, nothing else: two requests equal in these three, run
\* from the same cache state against the same upstream and encoder behaviour,
\* get the same response, make the same requests to the upstream and leave the
\* same cache, whatever their methods, bodies and other headers.
C33_OnlyPathQueryAccept ==
    (Len(trace) = 1 /\ trace[1].fn = "pair")
    => LET first == trace[1].request
           second == trace[1].other
       IN  (/\ first.uri.path = second.uri.path
            /\ first.uri.query = second.uri.query
            /\ GetAll(first.headers, "accept") = GetAll(second.headers, "accept"))
           => /\ ret.value.resp = ret.other.resp
              /\ ret.value.fetched = ret.other.fetched
              /\ ret.value.cache = ret.other.cache

\* A plain GET and a POST with a body, a Range, an If-None-Match, a no-cache
\* and a cookie, for the same image: both go upstream, both convert, both
\* store, and nothing tells them apart.
C33_Witness ==
    /\ Len(trace) = 1
    /\ trace[1].fn = "pair"
    /\ trace[1].request.method = "GET"
    /\ trace[1].request.body = EmptyBody
    /\ ~HasHeader(trace[1].request.headers, "cookie")
    /\ trace[1].other.method = "POST"
    /\ trace[1].other.body # EmptyBody
    /\ HasHeader(trace[1].other.headers, "cache-control")
    /\ HasHeader(trace[1].other.headers, "range")
    /\ trace[1].cache = <<>>
    /\ Len(ret.value.fetched) = 1
    /\ ret.value.fetched[1].method = "GET"
    /\ ret.value.resp.status = 200
    /\ ret.value.resp.body.enc = "avif"
    /\ DOMAIN ret.value.cache # {}
    /\ ret.other = ret.value

\* C34: when the query has more than one `format` parameter,
\* parse_query_for_format leaves none of them in the remaining query and keeps
\* every other parameter in its order, and the format it returns is decided by
\* the last of them alone: the format that one names, none if it names none,
\* whatever the earlier ones name.
C34_LastOfManyFormats ==
    LET query == trace[1].request.query
        IsFormat(p) == p.eq /\ p.key = "format"
        Reads(v, words) ==
            \E i \in 1..Len(v) :
                v[i] \in words /\ \A k \in (1..Len(v)) \ {i} : v[k] = "+"
        Named(p) == IF Reads(p.value, {"avif", "AVIF"}) THEN "Avif"
                    ELSE IF Reads(p.value, {"webp", "WebP"}) THEN "WebP"
                    ELSE "none"
        formats == {i \in 1..Len(query) : IsFormat(query[i])}
        final == CHOOSE i \in formats : \A j \in formats : j <= i
    IN  (/\ Len(trace) = 1
         /\ trace[1].fn = "parse"
         /\ Cardinality(formats) > 1)
        => /\ \A j \in 1..Len(ret.value.remaining) : ~IsFormat(ret.value.remaining[j])
           /\ ret.value.remaining = SelectSeq(query, LAMBDA p : ~IsFormat(p))
           /\ Named(query[final]) = "none" => ret.value.format = Nil
           /\ Named(query[final]) # "none" => ret.value.format = Named(query[final])

\* format=avif&x=1&format=png: no override, and x=1 alone remains.
C34_Witness ==
    /\ Len(trace) = 1
    /\ trace[1].fn = "parse"
    /\ trace[1].request.query
          = <<Param("format", <<"avif">>), Param("x", <<"1">>), Param("format", <<"png">>)>>
    /\ ret.value.format = Nil
    /\ ret.value.remaining = <<Param("x", <<"1">>)>>


====
